---- MODULE Spec2Model ----
(***************************************************************************)
(* Session / time-accounting engine of the browser usage tracker:          *)
(* the background service worker (UsageTracker, the runtime.onMessage      *)
(* listeners) and the content script (PageTracker).                        *)
(*                                                                         *)
(* Time is in milliseconds.  A string that the code inspects (an address,  *)
(* a domain) is a sequence of chunks, each chunk a piece of text that no   *)
(* pattern of the code cuts through: <<"https://", "www.", "a.com", "/p1">>*)
(* is the address https://www.a.com/p1.  The empty string is <<>>.         *)
(***************************************************************************)
EXTENDS Integers, Sequences, FiniteSets, TLC

\* ------------------------------------------------------------------ bounds
\* Wall-clock time stops advancing at MaxNow.
MaxNow == 2001
\* At most MaxCommits calls of saveVisitData in one behaviour.
MaxCommits == 2
\* At most MaxPending undelivered callbacks of one kind.
MaxPending == 1
\* Wall-clock time of the page's life stops advancing at MaxPageNow.
MaxPageNow == 30000
MaxPomoNow == 3000
MaxSeqNow == 325000
\* extractDomain is called with hosts of up to MaxHostChunks chunks.
MaxHostChunks == 2
\* formatDuration is called with durations of up to MaxMinutes minutes.
MaxMinutes == 150
\* Wall-clock time across midnight stops advancing at MaxDayNow, two days.
MaxDayNow == 172800000

\* ------------------------------------------------------- program constants
\* stopTrackingTab: "Only track visits longer than 1 second".
MinVisitMs == 1000
\* pageEvent handler: the floor and the ceiling of a heartbeat delta.
HeartbeatFloorMs == 5000
HeartbeatCapMs == 60000
\* PageTracker: idleThreshold and heartbeatInterval.
IdleThresholdMs == 30000
HeartbeatIntervalMs == 10000
\* toISOString().split('T')[0]: one UTC calendar day.
DayMs == 86400000

Max(a, b) == IF a >= b THEN a ELSE b
Min(a, b) == IF a <= b THEN a ELSE b

\* ----------------------------------------------------------------- strings
\* String.prototype.startsWith, for a pattern of one chunk.
StartsWith(s, chunk) == Len(s) >= 1 /\ s[1] = chunk

\* String.prototype.includes, for a pattern of one chunk.
Includes(s, chunk) == \E i \in 1..Len(s) : s[i] = chunk

\* String.prototype.replace(pattern, ''), pattern a string: the FIRST
\* occurrence is removed, wherever it is.
RemoveFirst(s, chunk) ==
  IF Includes(s, chunk)
  THEN LET i == CHOOSE k \in 1..Len(s) :
                  s[k] = chunk /\ \A j \in 1..(k - 1) : s[j] # chunk
       IN  SubSeq(s, 1, i - 1) \o SubSeq(s, i + 1, Len(s))
  ELSE s

\* The chunks an address is made of.
HierSchemes == {"http://", "https://"}
OpaqueSchemes == {"data:"}
InternalSchemes == {"chrome://", "chrome-extension://", "about:", "file://"}
HostChunks == {"www.", "a.com", "b.com", "sub.", "google.com"}
PathChunks == {"/", "/p1", "/p2", "extensions/", "blank"}

\* new URL(url): the parse succeeds for scheme://host[path] with a non-empty
\* host and for an opaque scheme (hostname ''); anything else throws.
\* The result is <<ok, hostname>>.
HostEnd(url) ==
  IF \E i \in 2..Len(url) : url[i] \notin HostChunks
  THEN (CHOOSE i \in 2..Len(url) :
          url[i] \notin HostChunks /\ \A j \in 2..(i - 1) : url[j] \in HostChunks) - 1
  ELSE Len(url)

ParseURL(url) ==
  IF Len(url) >= 1 /\ url[1] \in HierSchemes /\ HostEnd(url) >= 2
  THEN <<TRUE, SubSeq(url, 2, HostEnd(url))>>
  ELSE IF Len(url) >= 1 /\ url[1] \in OpaqueSchemes
  THEN <<TRUE, <<>>>>
  ELSE <<FALSE, <<>>>>

Unknown == <<"unknown">>

extractDomain(url) ==
  IF StartsWith(url, "chrome://") THEN <<"chrome://">>
  ELSE IF StartsWith(url, "chrome-extension://") THEN <<"chrome-extension://">>
  ELSE IF StartsWith(url, "about:") THEN <<"about:">>
  ELSE IF StartsWith(url, "file://") THEN <<"file://">>
  ELSE IF ParseURL(url)[1] THEN RemoveFirst(ParseURL(url)[2], "www.")
  ELSE Unknown

ExcludedList == <<"chrome://", "chrome-extension://", "about:", "file://">>

\* A variant whose list lacks file://.
isDomainExcluded_NoFile(domain) ==
  \E i \in 1..3 : Includes(domain, ExcludedList[i]) \/ domain = <<>>

isDomainExcluded(domain) ==
  \E i \in 1..Len(ExcludedList) : Includes(domain, ExcludedList[i]) \/ domain = <<>>

\* ---------------------------------------------------------------- inputs
Tabs == {1, 2}

UrlA1 == <<"https://", "www.", "a.com", "/p1">>
UrlA2 == <<"https://", "a.com", "/p2">>
UrlB == <<"http://", "b.com", "/">>
UrlChrome == <<"chrome://", "extensions/">>
UrlExt == <<"chrome-extension://", "/p1">>
UrlAbout == <<"about:", "blank">>
UrlFile == <<"file://", "/p1">>
UrlData == <<"data:", "/p1">>
UrlBad == <<"/p1">>
UrlNone == <<>>
\* An http(s) address whose whole host is the label "www.".
UrlWww == <<"https://", "www.", "/">>
\* Two addresses of google.com.
UrlG1 == <<"https://", "www.", "google.com", "/p1">>
UrlG2 == <<"https://", "google.com", "/p2">>

\* The addresses the tab and window events report: a trackable one, the internal
\* ones and a missing one.
TabUrls == {UrlA1, UrlChrome, UrlExt, UrlAbout, UrlFile, UrlNone}
\* The addresses and the timestamps the pageEvent messages carry.
PingUrls == {UrlA1, UrlA2}
InternalUrls == {UrlChrome, UrlExt, UrlAbout, UrlFile}
PingTimes == {0, 4999, 9999, 70000}
\* sender.tab.id; 0 stands for a sender without a tab (!tabId).
NoTab == 0
\* The tab whose page is followed from its load to its unload.
PageTab == 1
\* Two addresses of one domain.
VisitUrls == {UrlA1, UrlA2}
\* One address of every kind the classifier distinguishes.
AllUrls == {UrlA1, UrlA2, UrlB, UrlChrome, UrlExt, UrlAbout, UrlFile, UrlData, UrlBad, UrlNone}
\* The addresses of the exclusion rule: http and https ones and the internal ones.
ClassUrls == {UrlA1, UrlB, UrlWww} \cup InternalUrls


\* ----------------------------------------------------------------- state
VARIABLES
  now,                \* Date.now()
  isTrackingEnabled,  \* tracker.isTrackingEnabled
  activeTabs,         \* tracker.activeTabs: the sessions, in insertion order
  sessionData,        \* tracker.sessionData: tabId -> {lastTimestamp, url}
  pendingGet,         \* undelivered chrome.tabs.get callbacks, per tabId
  pendingQuery,       \* undelivered chrome.tabs.query({active, windowId}) callbacks
  pendingInit,        \* initializeExistingTabs awaits chrome.tabs.query({})
  commits,            \* the calls of saveVisitData, in call order, with their progress
  visits,             \* storage: day -> (domain -> DailyVisitRecord), key visits_<day>
  statistics,         \* storage: key statistics, <<>> when absent
  settings,           \* storage: key settings, <<>> when absent
  inbox,              \* the message being delivered to the listeners, <<>> when none
  response,           \* what the handler passed to sendResponse, <<>> before it has
  page,               \* the PageTracker of the page shown in tab PageTab
  requests,           \* the asynchronous request handlers in flight, with their progress
  trackerPomodoro,    \* tracker.pomodoro
  pomodoro,           \* storage: key pomodoro, <<>> when absent
  alarm,              \* the armed 'pomodoro-end' alarm: <<when>>, <<>> when none
  requestedEnabled,   \* not in the code: the enabled of the last request that set
                      \* tracking on or off, <<>> before the first
  clearedUpTo,        \* not in the code: how many commits had been issued when the
                      \* last clearData completed, 0 before the first
  blurred,            \* not in the code: the last tab-activated, tab-updated or
                      \* window-focus event reported that no window is focused
  probe               \* the last call of a function that keeps no state: <<its name,
                      \* argument and result>>, <<>> before the first

cbVars == <<pendingGet, pendingQuery, pendingInit>>
storeVars == <<visits, statistics, settings>>
msgVars == <<inbox, response>>
pageVars == <<page>>
reqVars == <<requests>>
pomoVars == <<trackerPomodoro, pomodoro, alarm>>
\* What the tab and window events leave alone, and blurred with it.
restVars == <<pomoVars, requestedEnabled, clearedUpTo, probe>>
extVars == <<restVars, blurred>>
vars == <<now, isTrackingEnabled, activeTabs, sessionData, cbVars, commits, storeVars,
          msgVars, pageVars, reqVars, extVars>>

\* A Map as a function: absent keys are outside its DOMAIN.
EmptyMap == <<>>
Has(m, k) == k \in DOMAIN m
Put(m, k, v) == (k :> v) @@ m

\* ----------------------------------------------------------- activeTabs
\* Map.prototype.get / has on the sessions (a Map keeps insertion order).
TabIndex(tabs, tabId) ==
  IF \E i \in 1..Len(tabs) : tabs[i].tabId = tabId
  THEN CHOOSE i \in 1..Len(tabs) : tabs[i].tabId = tabId
  ELSE 0

\* Map.prototype.set: an existing key keeps its place, a new one goes last.
TabSet(tabs, session) ==
  LET i == TabIndex(tabs, session.tabId)
  IN  IF i = 0 THEN Append(tabs, session) ELSE [tabs EXCEPT ![i] = session]

\* Map.prototype.delete.
TabDelete(tabs, tabId) ==
  LET i == TabIndex(tabs, tabId)
  IN  IF i = 0 THEN tabs ELSE SubSeq(tabs, 1, i - 1) \o SubSeq(tabs, i + 1, Len(tabs))

\* ------------------------------------------------------------ the commit
\* new Date().toISOString().split('T')[0]: the UTC day of the call.
today == now \div DayMs

\* A variant that takes the day on which the visit began.
saveVisitData_StartDay(cs, domain, duration, url, chan) ==
  Append(cs, [domain |-> domain, duration |-> duration, url |-> url,
              key |-> (now - duration) \div DayMs,
              chan |-> chan, pc |-> "get", visits |-> EmptyMap, stats |-> <<>>])

\* saveVisitData up to its first await: the key is computed and the get issued.
\* chan records the caller ("focus" or "heartbeat"); the code does not keep it.
saveVisitData(cs, domain, duration, url, chan) ==
  Append(cs, [domain |-> domain, duration |-> duration, url |-> url, key |-> today,
              chan |-> chan, pc |-> "get", visits |-> EmptyMap, stats |-> <<>>])

\* A handler works on the pair M = [tabs, commits] and returns the new pair.
startTrackingTab(M, tabId, url) ==
  IF ~isTrackingEnabled \/ url = <<>> THEN M
  ELSE IF isDomainExcluded(extractDomain(url)) THEN M
  ELSE [M EXCEPT !.tabs = TabSet(M.tabs, [tabId |-> tabId, url |-> url,
                                           domain |-> extractDomain(url),
                                           startTime |-> now, lastUpdate |-> now])]

\* No call of saveVisitData, and none of updateStatistics, is in flight.
AllDone == \A i \in 1..Len(commits) : commits[i].pc = "done"

\* A variant that accepts a visit of exactly MinVisitMs (>= for >).
stopTrackingTab_AtLeast(M, tabId) ==
  LET i == TabIndex(M.tabs, tabId)
  IN  IF i = 0 THEN M
      ELSE LET trackingData == M.tabs[i]
               duration == now - trackingData.startTime
           IN  [tabs |-> TabDelete(M.tabs, tabId),
                commits |-> IF duration >= MinVisitMs
                            THEN saveVisitData(M.commits, trackingData.domain, duration,
                                               trackingData.url, "focus")
                            ELSE M.commits]

\* A variant without the early return: a stop of a tab that has no session
\* ends the sessions of the other tabs.
stopTrackingTab_NoReturn(M, tabId) ==
  LET i == TabIndex(M.tabs, tabId)
  IN  IF i = 0 THEN [M EXCEPT !.tabs = <<>>]
      ELSE LET trackingData == M.tabs[i]
               duration == now - trackingData.startTime
           IN  [tabs |-> TabDelete(M.tabs, tabId),
                commits |-> IF duration > MinVisitMs
                            THEN saveVisitData(M.commits, trackingData.domain, duration,
                                               trackingData.url, "focus")
                            ELSE M.commits]

stopTrackingTab(M, tabId) ==
  LET i == TabIndex(M.tabs, tabId)
  IN  IF i = 0 THEN M
      ELSE LET trackingData == M.tabs[i]
               duration == now - trackingData.startTime
           IN  [tabs |-> TabDelete(M.tabs, tabId),
                commits |-> IF duration > MinVisitMs
                            THEN saveVisitData(M.commits, trackingData.domain, duration,
                                               trackingData.url, "focus")
                            ELSE M.commits]

\* for (const tabId of this.activeTabs.keys()) this.stopTrackingTab(tabId):
\* every session is visited, in insertion order.
RECURSIVE stopTrackingAllTabs(_)
stopTrackingAllTabs(M) ==
  IF M.tabs = <<>> THEN M
  ELSE stopTrackingAllTabs(stopTrackingTab(M, M.tabs[1].tabId))

Cur == [tabs |-> activeTabs, commits |-> commits]

\* The handler's result becomes the state; the bound on the calls of saveVisitData.
Becomes(M) ==
  /\ Len(M.commits) <= MaxCommits
  /\ activeTabs' = M.tabs
  /\ commits' = M.commits

\* No document is loaded in the tab.  hiddenGap and sentGap are not in the code:
\* hiddenGap tells whether the document was hidden at some moment since the
\* page's last message, sentGap is hiddenGap as it was when that message was sent.
NoPage == [loaded |-> FALSE, url |-> <<>>, isVisible |-> FALSE, lastActivity |-> 0,
           nextBeat |-> 0, hiddenGap |-> FALSE, sentGap |-> FALSE]

\* Date.now() is a count of milliseconds since 1970, never 0.
Epoch == 1
DateNow(t) == Epoch + t

\* this.pomodoro as the constructor sets it.
DefaultPomodoro(t) ==
  [mode |-> "work", isRunning |-> FALSE, remainingMs |-> 25 * 60 * 1000,
   workMs |-> 25 * 60 * 1000, breakMs |-> 5 * 60 * 1000, longBreakMs |-> 15 * 60 * 1000,
   sessionsBeforeLong |-> 4, sessionsCompleted |-> 0, lastUpdated |-> t]

Init ==
  /\ now = 0
  /\ isTrackingEnabled = TRUE
  /\ activeTabs = <<>>
  /\ sessionData = EmptyMap
  /\ pendingGet = [t \in Tabs |-> 0]
  /\ pendingQuery = 0
  /\ pendingInit = TRUE
  /\ commits = <<>>
  /\ visits = EmptyMap
  /\ statistics = <<>>
  /\ settings = <<>>
  /\ inbox = <<>>
  /\ response = <<>>
  /\ page = NoPage
  /\ requests = <<>>
  /\ trackerPomodoro = DefaultPomodoro(DateNow(0))
  /\ pomodoro = <<>>
  /\ alarm = <<>>
  /\ requestedEnabled = <<>>
  /\ clearedUpTo = 0
  /\ probe = <<>>
  /\ blurred = FALSE

\* ------------------------------------------------------------------ time
TickSteps == {1000, 1001}

Tick ==
  /\ \E d \in TickSteps : now + d <= MaxNow /\ now' = now + d
  /\ UNCHANGED <<extVars, isTrackingEnabled, activeTabs, sessionData, cbVars, commits, storeVars, msgVars, pageVars, reqVars>>

\* ------------------------------------------------- tab and window events
\* initializeExistingTabs after its await: the active tab, if any, is tracked.
\* found = FALSE: no tab is active.
InitializeExistingTabs(U) ==
  /\ pendingInit
  /\ pendingInit' = FALSE
  /\ \E found \in BOOLEAN, tabId \in Tabs, url \in U :
       Becomes(IF found THEN startTrackingTab(Cur, tabId, url) ELSE Cur)
  /\ UNCHANGED <<extVars, now, isTrackingEnabled, sessionData, pendingGet, pendingQuery, storeVars, msgVars, pageVars, reqVars>>

handleTabActivated(tabId) ==
  /\ pendingGet[tabId] < MaxPending
  /\ Becomes(stopTrackingAllTabs(Cur))
  /\ pendingGet' = [pendingGet EXCEPT ![tabId] = @ + 1]
  /\ blurred' = FALSE
  /\ UNCHANGED <<restVars, now, isTrackingEnabled, sessionData, pendingQuery, pendingInit, storeVars, msgVars, pageVars, reqVars>>

\* The callback of chrome.tabs.get: tab is undefined (found = FALSE) when the tab
\* is gone, else it carries the tab's address at that moment.
TabsGetCallback(tabId, U) ==
  /\ pendingGet[tabId] > 0
  /\ pendingGet' = [pendingGet EXCEPT ![tabId] = @ - 1]
  /\ \E found \in BOOLEAN, url \in U :
       Becomes(IF found THEN startTrackingTab(Cur, tabId, url) ELSE Cur)
  /\ UNCHANGED <<extVars, now, isTrackingEnabled, sessionData, pendingQuery, pendingInit, storeVars, msgVars, pageVars, reqVars>>

\* changeInfo.status === 'complete' && tab.url; any other update is ignored.
handleTabUpdated(tabId, url) ==
  /\ url # <<>>
  /\ Becomes(startTrackingTab(stopTrackingTab(Cur, tabId), tabId, url))
  /\ blurred' = FALSE
  /\ UNCHANGED <<restVars, now, isTrackingEnabled, sessionData, cbVars, storeVars, msgVars, pageVars, reqVars>>

handleTabRemoved(tabId) ==
  /\ Becomes(stopTrackingTab(Cur, tabId))
  /\ UNCHANGED <<extVars, now, isTrackingEnabled, sessionData, cbVars, storeVars, msgVars, pageVars, reqVars>>

\* windowId === chrome.windows.WINDOW_ID_NONE
WindowBlur ==
  /\ Becomes(stopTrackingAllTabs(Cur))
  /\ blurred' = TRUE
  /\ UNCHANGED <<restVars, now, isTrackingEnabled, sessionData, cbVars, storeVars, msgVars, pageVars, reqVars>>

\* any other windowId: chrome.tabs.query({active: true, windowId}) is issued
WindowFocus ==
  /\ pendingQuery < MaxPending
  /\ pendingQuery' = pendingQuery + 1
  /\ blurred' = FALSE
  /\ UNCHANGED <<restVars, now, isTrackingEnabled, activeTabs, sessionData, pendingGet, pendingInit, commits, storeVars, msgVars, pageVars, reqVars>>

\* The callback of that query: tabs[0] is the window's active tab (found), or
\* the list is empty.
TabsQueryCallback(U) ==
  /\ pendingQuery > 0
  /\ pendingQuery' = pendingQuery - 1
  /\ \E found \in BOOLEAN, tabId \in Tabs, url \in U :
       Becomes(IF found THEN startTrackingTab(stopTrackingAllTabs(Cur), tabId, url)
               ELSE Cur)
  /\ UNCHANGED <<extVars, now, isTrackingEnabled, sessionData, pendingGet, pendingInit, storeVars, msgVars, pageVars, reqVars>>

\* onMessage, action 'toggleTracking'
ToggleTracking(enabled) ==
  /\ isTrackingEnabled' = enabled
  /\ requestedEnabled' = <<enabled>>
  /\ Becomes(IF enabled THEN Cur ELSE stopTrackingAllTabs(Cur))
  /\ UNCHANGED <<pomoVars, clearedUpTo, probe, blurred, now, sessionData, cbVars, storeVars, msgVars, pageVars, reqVars>>

\* ------------------------------------------------- the heartbeat channel
\* A page sends {type: 'pageEvent', url, timestamp}; sender.tab.id is tabId.
\* Messages are dispatched to the listener one at a time.
SendPageEvent(tabId, url, timestamp) ==
  /\ inbox = <<>>
  /\ inbox' = <<[type |-> <<"pageEvent">>, tabId |-> tabId, url |-> url,
                 timestamp |-> timestamp]>>
  /\ response' = <<>>
  /\ UNCHANGED <<extVars, now, isTrackingEnabled, activeTabs, sessionData, cbVars, commits,
                 storeVars, pageVars, reqVars>>

\* The onMessage listener on a request of type 'pageEvent': the new sessionData,
\* the new commits and the response.
\* A variant that moves the baseline only when it commits.
onPageEvent_KeepBaseline(sd, cs, m) ==
  LET domain == extractDomain(m.url)
      ts == m.timestamp
      entry == [lastTimestamp |-> ts, url |-> m.url]
  IN  IF m.tabId = NoTab \/ isDomainExcluded(domain)
      THEN [sessionData |-> sd, commits |-> cs, ok |-> FALSE]
      ELSE IF ~Has(sd, m.tabId) \/ sd[m.tabId].url # m.url
      THEN [sessionData |-> Put(sd, m.tabId, entry), commits |-> cs, ok |-> TRUE]
      ELSE LET delta == Max(0, Min(ts - sd[m.tabId].lastTimestamp, HeartbeatCapMs))
           IN  IF delta >= HeartbeatFloorMs
               THEN [sessionData |-> Put(sd, m.tabId, entry),
                     commits |-> saveVisitData(cs, domain, delta, m.url, "heartbeat"),
                     ok |-> TRUE]
               ELSE [sessionData |-> sd, commits |-> cs, ok |-> TRUE]

\* A variant that resets the baseline only on first contact, not on a new url.
onPageEvent_CountGap(sd, cs, m) ==
  LET domain == extractDomain(m.url)
      ts == m.timestamp
      entry == [lastTimestamp |-> ts, url |-> m.url]
  IN  IF m.tabId = NoTab \/ isDomainExcluded(domain)
      THEN [sessionData |-> sd, commits |-> cs, ok |-> FALSE]
      ELSE IF ~Has(sd, m.tabId)
      THEN [sessionData |-> Put(sd, m.tabId, entry), commits |-> cs, ok |-> TRUE]
      ELSE LET delta == Max(0, Min(ts - sd[m.tabId].lastTimestamp, HeartbeatCapMs))
           IN  [sessionData |-> Put(sd, m.tabId, entry),
                commits |-> IF delta >= HeartbeatFloorMs
                            THEN saveVisitData(cs, domain, delta, m.url, "heartbeat")
                            ELSE cs,
                ok |-> TRUE]

\* A variant that commits no heartbeat while a session of the tab is live.
onPageEvent_Exclusive(sd, cs, m) ==
  LET domain == extractDomain(m.url)
      ts == m.timestamp
      entry == [lastTimestamp |-> ts, url |-> m.url]
  IN  IF m.tabId = NoTab \/ isDomainExcluded(domain)
      THEN [sessionData |-> sd, commits |-> cs, ok |-> FALSE]
      ELSE IF ~Has(sd, m.tabId) \/ sd[m.tabId].url # m.url
      THEN [sessionData |-> Put(sd, m.tabId, entry), commits |-> cs, ok |-> TRUE]
      ELSE LET delta == Max(0, Min(ts - sd[m.tabId].lastTimestamp, HeartbeatCapMs))
           IN  [sessionData |-> Put(sd, m.tabId, entry),
                commits |-> IF delta >= HeartbeatFloorMs /\ TabIndex(activeTabs, m.tabId) = 0
                            THEN saveVisitData(cs, domain, delta, m.url, "heartbeat")
                            ELSE cs,
                ok |-> TRUE]

onPageEvent(sd, cs, m) ==
  LET domain == extractDomain(m.url)
      ts == m.timestamp
      entry == [lastTimestamp |-> ts, url |-> m.url]
  IN  IF m.tabId = NoTab \/ isDomainExcluded(domain)
      THEN [sessionData |-> sd, commits |-> cs, ok |-> FALSE]
      ELSE IF ~Has(sd, m.tabId) \/ sd[m.tabId].url # m.url
      THEN [sessionData |-> Put(sd, m.tabId, entry), commits |-> cs, ok |-> TRUE]
      ELSE LET delta == Max(0, Min(ts - sd[m.tabId].lastTimestamp, HeartbeatCapMs))
           IN  [sessionData |-> Put(sd, m.tabId, entry),
                commits |-> IF delta >= HeartbeatFloorMs
                            THEN saveVisitData(cs, domain, delta, m.url, "heartbeat")
                            ELSE cs,
                ok |-> TRUE]

HandlePageEvent ==
  /\ inbox # <<>> /\ inbox[1].type = <<"pageEvent">>
  /\ inbox' = <<>>
  /\ LET r == onPageEvent(sessionData, commits, inbox[1])
     IN  /\ Len(r.commits) <= MaxCommits
         /\ sessionData' = r.sessionData
         /\ commits' = r.commits
         /\ response' = <<[ok |-> r.ok]>>
  /\ UNCHANGED <<extVars, now, isTrackingEnabled, activeTabs, cbVars, storeVars, pageVars, reqVars>>

\* ------------------------------------------------- other requests
\* The actions the two onMessage listeners have a case for.
TrackerActions == {"getDailyStats", "getStatistics", "clearData", "exportData",
                   "toggleTracking", "getSettings", "saveSettings"}
TimerActions == {"pomodoro:get", "pomodoro:start", "pomodoro:pause", "pomodoro:reset",
                 "pomodoro:updateSettings", "tasks:list", "tasks:add", "tasks:toggle",
                 "tasks:delete", "tasks:clearCompleted", "tasks:clearAll"}

\* Requests with an action no listener has a case for, or with none, and with
\* a type other than pageEvent, or with none (<<>>: the key is missing).
UnknownRequests ==
  {[type |-> type, action |-> action] :
     type \in {<<>>, <<"pageLoad">>},
     action \in {<<>>, <<"">>, <<"toggle">>, <<"pomodoro:stop">>}}

\* A popup or a page sends a request that is no pageEvent.
SendRequest(request) ==
  /\ inbox = <<>>
  /\ inbox' = <<request>>
  /\ response' = <<>>
  /\ UNCHANGED <<extVars, now, isTrackingEnabled, activeTabs, sessionData, cbVars, commits,
                 storeVars, pageVars, reqVars>>

\* A variant whose default case switches tracking off.
OnMessageDefault_Disable ==
  /\ inbox' = <<>>
  /\ isTrackingEnabled' = FALSE
  /\ UNCHANGED <<extVars, now, activeTabs, sessionData, cbVars, commits,
                 storeVars, response, pageVars, reqVars>>

\* The default case of both listeners: the first returns false, the second
\* true, and neither calls sendResponse.
OnMessageDefault ==
  /\ inbox' = <<>>
  /\ UNCHANGED <<extVars, now, isTrackingEnabled, activeTabs, sessionData, cbVars, commits,
                 storeVars, response, pageVars, reqVars>>

\* Both listeners on a request that is no pageEvent and whose action has no case.
HandleUnknownRequest ==
  /\ inbox # <<>> /\ inbox[1].type # <<"pageEvent">>
  /\ \A a \in TrackerActions \cup TimerActions : inbox[1].action # <<a>>
  /\ OnMessageDefault

\* ------------------------------------------------- the content script
PageTickSteps == {5000, 10000}

PageTick ==
  /\ \E d \in PageTickSteps : now + d <= MaxPageNow /\ now' = now + d
  /\ UNCHANGED <<extVars, isTrackingEnabled, activeTabs, sessionData, cbVars, commits, storeVars,
                 msgVars, pageVars, reqVars>>

\* PageTracker.sendPageEvent: url is window.location.href, timestamp is Date.now().
sendPageEvent(url) ==
  /\ inbox = <<>>
  /\ inbox' = <<[type |-> <<"pageEvent">>, tabId |-> PageTab, url |-> url,
                 timestamp |-> now]>>
  /\ response' = <<>>

\* new PageTracker(): the constructor and init(), which starts the heartbeat
\* and sends 'pageLoad'.  hidden is document.hidden at that moment.
PageLoad(url, hidden) ==
  /\ ~page.loaded
  /\ sendPageEvent(url)
  /\ page' = [loaded |-> TRUE, url |-> url, isVisible |-> ~hidden, lastActivity |-> now,
              nextBeat |-> now + HeartbeatIntervalMs, hiddenGap |-> hidden,
              sentGap |-> FALSE]
  /\ UNCHANGED <<extVars, now, isTrackingEnabled, activeTabs, sessionData, cbVars, commits,
                 storeVars, reqVars>>

\* handleVisibilityChange: the document became visible or hidden.
handleVisibilityChange ==
  /\ page.loaded
  /\ sendPageEvent(page.url)
  /\ page' = IF ~page.isVisible
             THEN [page EXCEPT !.isVisible = TRUE, !.lastActivity = now,
                               !.sentGap = page.hiddenGap, !.hiddenGap = FALSE]
             ELSE [page EXCEPT !.isVisible = FALSE,
                               !.sentGap = page.hiddenGap, !.hiddenGap = TRUE]
  /\ UNCHANGED <<extVars, now, isTrackingEnabled, activeTabs, sessionData, cbVars, commits,
                 storeVars, reqVars>>

\* handleUserActivity: mousedown, keydown, scroll or touchstart.
handleUserActivity ==
  /\ page.loaded
  /\ page' = [page EXCEPT !.lastActivity = now]
  /\ UNCHANGED <<extVars, now, isTrackingEnabled, activeTabs, sessionData, cbVars, commits,
                 storeVars, msgVars, reqVars>>

isUserActive == now - page.lastActivity < IdleThresholdMs

\* The setInterval callback of startHeartbeat, due every heartbeatInterval.
HeartbeatTimer ==
  /\ page.loaded
  /\ now >= page.nextBeat
  /\ IF page.isVisible /\ isUserActive
     THEN /\ sendPageEvent(page.url)
          /\ page' = [page EXCEPT !.nextBeat = now + HeartbeatIntervalMs,
                                  !.sentGap = page.hiddenGap, !.hiddenGap = FALSE]
     ELSE /\ page' = [page EXCEPT !.nextBeat = now + HeartbeatIntervalMs]
          /\ UNCHANGED msgVars
  /\ UNCHANGED <<extVars, now, isTrackingEnabled, activeTabs, sessionData, cbVars, commits,
                 storeVars, reqVars>>

\* beforeunload: cleanup() sends 'pageUnload' and the heartbeat is cleared.
PageUnload ==
  /\ page.loaded
  /\ sendPageEvent(page.url)
  /\ page' = [NoPage EXCEPT !.sentGap = page.hiddenGap]
  /\ UNCHANGED <<extVars, now, isTrackingEnabled, activeTabs, sessionData, cbVars, commits,
                 storeVars, reqVars>>

\* ------------------------------------------------- the settings
\* A settings object is a function from its keys to their values; of the four
\* keys saveSettings copies, trackingEnabled and excludedDomains are followed
\* (dailyGoal and dataRetentionDays are copied the same way and read nowhere
\* in the engine).  excludedDomains is an array of domains.
DomainA == <<"a.com">>
SettingsInputs ==
  { EmptyMap,
    "trackingEnabled" :> TRUE,
    "trackingEnabled" :> FALSE,
    "excludedDomains" :> <<DomainA>>,
    "excludedDomains" :> <<>>,
    ("trackingEnabled" :> TRUE) @@ ("excludedDomains" :> <<DomainA>>) }

\* onMessage, action 'saveSettings': chrome.storage.local.get('settings') is issued.
SaveSettings(incoming) ==
  /\ Len(requests) < MaxPending
  /\ requests' = Append(requests, [action |-> "saveSettings", pc |-> "get",
                                   arg |-> incoming, local |-> EmptyMap])
  /\ UNCHANGED <<extVars, now, isTrackingEnabled, activeTabs, sessionData, cbVars, commits,
                 storeVars, msgVars, pageVars>>

\* val === undefined || (Array.isArray(val) && val.length === 0): a message
\* carries no undefined value, an empty array is possible for excludedDomains.
IsEmptyArray(key, val) == key = "excludedDomains" /\ val = <<>>

\* merged: the stored settings with the incoming keys set, or deleted when empty.
MergeSettings(existing, incoming) ==
  LET keys == (DOMAIN existing \cup DOMAIN incoming)
                \ {k \in DOMAIN incoming : IsEmptyArray(k, incoming[k])}
  IN  [k \in keys |-> IF k \in DOMAIN incoming THEN incoming[k] ELSE existing[k]]

\* The get of saveSettings resolves: merged is computed and the set issued.
SaveSettingsGet(i) ==
  /\ requests[i].action = "saveSettings" /\ requests[i].pc = "get"
  /\ requests' = [requests EXCEPT
       ![i].pc = "set",
       ![i].local = MergeSettings(IF settings = <<>> THEN EmptyMap ELSE settings[1],
                                  requests[i].arg)]
  /\ UNCHANGED <<extVars, now, isTrackingEnabled, activeTabs, sessionData, cbVars, commits,
                 storeVars, msgVars, pageVars>>

\* The set of saveSettings resolves: tracker.isTrackingEnabled = !!merged.trackingEnabled.
SaveSettingsSet(i) ==
  /\ requests[i].action = "saveSettings" /\ requests[i].pc = "set"
  /\ settings' = <<requests[i].local>>
  /\ isTrackingEnabled' = (Has(requests[i].local, "trackingEnabled")
                           /\ requests[i].local["trackingEnabled"])
  /\ requestedEnabled' = IF Has(requests[i].arg, "trackingEnabled")
                          THEN <<requests[i].arg["trackingEnabled"]>>
                          ELSE requestedEnabled
  /\ requests' = SubSeq(requests, 1, i - 1) \o SubSeq(requests, i + 1, Len(requests))
  /\ UNCHANGED <<pomoVars, clearedUpTo, probe, blurred, now, activeTabs, sessionData, cbVars, commits, visits, statistics,
                 msgVars, pageVars>>

\* ------------------------------------------------- the storage steps
DefaultRecord == [totalTime |-> 0, visitCount |-> 0, urls |-> EmptyMap]
Lookup(m, k, default) == IF Has(m, k) THEN m[k] ELSE default

\* A variant that starts from a fresh record at every call.
VisitsAfter_Fresh(result, domain, duration, url) ==
  Put(result, domain,
      [totalTime |-> duration, visitCount |-> 1, urls |-> Put(EmptyMap, url, duration)])

\* saveVisitData between its two awaits: visits = result[key] || {} with the
\* increments of (domain, duration, url) applied.
VisitsAfter(result, domain, duration, url) ==
  LET old == Lookup(result, domain, DefaultRecord)
  IN  Put(result, domain,
          [totalTime |-> old.totalTime + duration,
           visitCount |-> old.visitCount + 1,
           urls |-> Put(old.urls, url, Lookup(old.urls, url, 0) + duration)])

\* The get of saveVisitData resolves: the record read then is the one updated.
SaveVisitGet(i) ==
  /\ commits[i].pc = "get"
  /\ commits' = [commits EXCEPT
       ![i].pc = "set",
       ![i].visits = VisitsAfter(Lookup(visits, commits[i].key, EmptyMap),
                                 commits[i].domain, commits[i].duration, commits[i].url)]
  /\ UNCHANGED <<extVars, now, isTrackingEnabled, activeTabs, sessionData, cbVars, storeVars, msgVars, pageVars, reqVars>>

\* The set of saveVisitData resolves: the whole day's map is replaced, and
\* updateStatistics is called and issues its get.
SaveVisitSet(i) ==
  /\ commits[i].pc = "set"
  /\ visits' = Put(visits, commits[i].key, commits[i].visits)
  /\ commits' = [commits EXCEPT ![i].pc = "statGet"]
  /\ UNCHANGED <<extVars, now, isTrackingEnabled, activeTabs, sessionData, cbVars,
                 statistics, settings, msgVars, pageVars, reqVars>>

DefaultDomainStats == [totalTime |-> 0, visitCount |-> 0]

\* updateStatistics between its two awaits.
StatisticsAfter(result, domain, duration) ==
  LET stats == IF result = <<>>
               THEN [totalTime |-> 0, totalVisits |-> 0, domains |-> EmptyMap,
                     lastUpdated |-> now]
               ELSE result[1]
      old == Lookup(stats.domains, domain, DefaultDomainStats)
  IN  [totalTime |-> stats.totalTime + duration,
       totalVisits |-> stats.totalVisits + 1,
       domains |-> Put(stats.domains, domain,
                       [totalTime |-> old.totalTime + duration,
                        visitCount |-> old.visitCount + 1]),
       lastUpdated |-> now]

UpdateStatisticsGet(i) ==
  /\ commits[i].pc = "statGet"
  /\ commits' = [commits EXCEPT
       ![i].pc = "statSet",
       ![i].stats = <<StatisticsAfter(statistics, commits[i].domain, commits[i].duration)>>]
  /\ UNCHANGED <<extVars, now, isTrackingEnabled, activeTabs, sessionData, cbVars, storeVars, msgVars, pageVars, reqVars>>

UpdateStatisticsSet(i) ==
  /\ commits[i].pc = "statSet"
  /\ statistics' = commits[i].stats
  /\ commits' = [commits EXCEPT ![i].pc = "done"]
  /\ UNCHANGED <<extVars, now, isTrackingEnabled, activeTabs, sessionData, cbVars,
                 visits, settings, msgVars, pageVars, reqVars>>

\* A storage call of commit i rejects: the await throws inside the try block of
\* saveVisitData (pc "get", "set") or of updateStatistics (pc "statGet",
\* "statSet"), the catch logs the error and the function returns.  Nothing is
\* written by the rejected call.
StorageRejects(i, pc) ==
  /\ commits[i].pc = pc
  /\ commits' = [commits EXCEPT ![i].pc = "failed"]
  /\ UNCHANGED <<extVars, now, isTrackingEnabled, activeTabs, sessionData, cbVars, storeVars,
                 msgVars, pageVars, reqVars>>

SaveVisitGetRejects(i) == StorageRejects(i, "get")
SaveVisitSetRejects(i) == StorageRejects(i, "set")
UpdateStatisticsGetRejects(i) == StorageRejects(i, "statGet")
UpdateStatisticsSetRejects(i) == StorageRejects(i, "statSet")

\* Every call of saveVisitData has returned, and so has its updateStatistics.
Settled == \A i \in 1..Len(commits) : commits[i].pc \in {"done", "failed"}

\* ------------------------------------------------- start of the service worker
MaxProcs == 2

\* The request i is finished.
Without(i) == SubSeq(requests, 1, i - 1) \o SubSeq(requests, i + 1, Len(requests))

\* The worker is idle: no handler, callback, message or storage call is pending.
Idle ==
  /\ requests = <<>>
  /\ inbox = <<>>
  /\ \A t \in Tabs : pendingGet[t] = 0
  /\ pendingQuery = 0
  /\ ~pendingInit
  /\ \A i \in 1..Len(commits) : commits[i].pc = "done"

\* The browser ends the idle service worker and starts it again for the next
\* event: const tracker = new UsageTracker().  Storage and alarms are kept.
WorkerRestart ==
  /\ Idle
  /\ isTrackingEnabled' = TRUE
  /\ activeTabs' = <<>>
  /\ sessionData' = EmptyMap
  /\ trackerPomodoro' = DefaultPomodoro(DateNow(now))
  /\ pendingInit' = TRUE
  /\ UNCHANGED <<now, pendingGet, pendingQuery, commits, storeVars, msgVars, pageVars,
                 reqVars, pomodoro, alarm, requestedEnabled, clearedUpTo, probe, blurred>>

\* loadStoredData up to its first await.
LoadProc == [action |-> "loadStoredData", pc |-> "get", arg |-> EmptyMap, local |-> EmptyMap]
\* setDefaultSettings up to its first await.
DefaultsProc == [action |-> "setDefaultSettings", pc |-> "get", arg |-> EmptyMap,
                 local |-> EmptyMap]

\* runtime.onStartup
handleStartup ==
  /\ Len(requests) < MaxProcs
  /\ requests' = Append(requests, LoadProc)
  /\ UNCHANGED <<extVars, now, isTrackingEnabled, activeTabs, sessionData, cbVars, commits,
                 storeVars, msgVars, pageVars>>

\* runtime.onInstalled
handleInstalled ==
  /\ Len(requests) + 1 < MaxProcs
  /\ requests' = requests \o <<LoadProc, DefaultsProc>>
  /\ UNCHANGED <<extVars, now, isTrackingEnabled, activeTabs, sessionData, cbVars, commits,
                 storeVars, msgVars, pageVars>>

\* The get of loadStoredData resolves.  With settings stored, isTrackingEnabled
\* becomes settings.trackingEnabled (undefined, which tests as false, when the
\* key is missing).  With a pomodoro stored it is merged into this.pomodoro,
\* else the set of this.pomodoro is issued.  (The tasks key is not followed.)
LoadStoredDataGet(i) ==
  /\ requests[i].action = "loadStoredData" /\ requests[i].pc = "get"
  /\ isTrackingEnabled' =
       IF settings = <<>> THEN isTrackingEnabled
       ELSE Has(settings[1], "trackingEnabled") /\ settings[1]["trackingEnabled"]
  /\ IF pomodoro # <<>>
     THEN /\ trackerPomodoro' = pomodoro[1] @@ trackerPomodoro
          /\ requests' = Without(i)
     ELSE /\ trackerPomodoro' = trackerPomodoro
          /\ requests' = [requests EXCEPT ![i].pc = "set", ![i].local = trackerPomodoro]
  /\ UNCHANGED <<now, activeTabs, sessionData, cbVars, commits, storeVars, msgVars,
                 pageVars, pomodoro, alarm, requestedEnabled, clearedUpTo, probe, blurred>>

\* The set of loadStoredData resolves.
LoadStoredDataSet(i) ==
  /\ requests[i].action = "loadStoredData" /\ requests[i].pc = "set"
  /\ pomodoro' = <<requests[i].local>>
  /\ requests' = Without(i)
  /\ UNCHANGED <<now, isTrackingEnabled, activeTabs, sessionData, cbVars, commits,
                 storeVars, msgVars, pageVars, trackerPomodoro, alarm, requestedEnabled,
                 clearedUpTo, probe, blurred>>

DefaultSettings ==
  [trackingEnabled |-> TRUE, dailyGoal |-> 480,
   excludedDomains |-> << <<"chrome://">>, <<"chrome-extension://">>, <<"about:">> >>,
   dataRetentionDays |-> 30]

\* The get of setDefaultSettings resolves: the set is issued when no settings
\* are stored.
SetDefaultSettingsGet(i) ==
  /\ requests[i].action = "setDefaultSettings" /\ requests[i].pc = "get"
  /\ requests' = IF settings = <<>> THEN [requests EXCEPT ![i].pc = "set"] ELSE Without(i)
  /\ UNCHANGED <<extVars, now, isTrackingEnabled, activeTabs, sessionData, cbVars, commits,
                 storeVars, msgVars, pageVars>>

SetDefaultSettingsSet(i) ==
  /\ requests[i].action = "setDefaultSettings" /\ requests[i].pc = "set"
  /\ settings' = <<DefaultSettings>>
  /\ requests' = Without(i)
  /\ UNCHANGED <<extVars, now, isTrackingEnabled, activeTabs, sessionData, cbVars, commits,
                 visits, statistics, msgVars, pageVars>>

\* ------------------------------------------------- clearData
\* onMessage, action 'clearData': chrome.storage.local.clear() is issued.
ClearData ==
  /\ Len(requests) < MaxProcs
  /\ requests' = Append(requests, [action |-> "clearData", pc |-> "clear",
                                   arg |-> EmptyMap, local |-> EmptyMap])
  /\ UNCHANGED <<extVars, now, isTrackingEnabled, activeTabs, sessionData, cbVars, commits,
                 storeVars, msgVars, pageVars>>

\* The clear resolves: every key of the storage is gone, setDefaultSettings is
\* called (not awaited) and true is sent as the response.
ClearDataDone(i) ==
  /\ requests[i].action = "clearData" /\ requests[i].pc = "clear"
  /\ visits' = EmptyMap
  /\ statistics' = <<>>
  /\ settings' = <<>>
  /\ pomodoro' = <<>>
  /\ requests' = Append(Without(i), DefaultsProc)
  /\ clearedUpTo' = Len(commits)
  /\ UNCHANGED <<now, isTrackingEnabled, activeTabs, sessionData, cbVars, commits,
                 msgVars, pageVars, trackerPomodoro, alarm, requestedEnabled, probe,
                 blurred>>

\* ------------------------------------------------- the pomodoro timer
\* A stored pomodoro state is a function from its keys to their values; a key
\* whose value is undefined is not stored.
\* state[k] || default, for a number
Or(state, k, default) == IF Has(state, k) /\ state[k] # 0 THEN state[k] ELSE default
\* { ...a, ...b }
Spread(a, b) == b @@ a
Drop(state, k) == [x \in DOMAIN state \ {k} |-> state[x]]
IsRunning(state) == Has(state, "isRunning") /\ state["isRunning"]
Stored == IF pomodoro = <<>> THEN EmptyMap ELSE pomodoro[1]

\* A variant without the lower bound 0.
getPomodoroRemaining_NoClamp(state, t) ==
  IF ~IsRunning(state)
  THEN IF Has(state, "remainingMs") THEN <<state["remainingMs"]>> ELSE <<>>
  ELSE <<Or(state, "remainingMs", 0) - Max(0, t - Or(state, "lastUpdated", t))>>

\* getPomodoroRemaining at Date.now() = t: <<remaining>>, or <<>> for undefined.
getPomodoroRemaining(state, t) ==
  IF ~IsRunning(state)
  THEN IF Has(state, "remainingMs") THEN <<state["remainingMs"]>> ELSE <<>>
  ELSE LET delta == Max(0, t - Or(state, "lastUpdated", t))
       IN  <<Max(0, Or(state, "remainingMs", 0) - delta)>>

\* { ...state, remainingMs: remaining }
WithRemaining(state, remaining) ==
  IF remaining = <<>> THEN Drop(state, "remainingMs")
  ELSE Put(state, "remainingMs", remaining[1])

\* A variant that takes the long break by the count before the increment.
onAlarmNext_OldCount(state, t) ==
  LET completed == Or(state, "sessionsCompleted", 0) + 1
      useLong == (completed - 1) % Or(state, "sessionsBeforeLong", 4) = 0
      turned ==
        IF Has(state, "mode") /\ state["mode"] = "work"
        THEN Spread(state, [sessionsCompleted |-> completed, mode |-> "break",
                            remainingMs |-> IF useLong THEN Or(state, "longBreakMs", 900000)
                                            ELSE Or(state, "breakMs", 300000)])
        ELSE Spread(state, [mode |-> "work", remainingMs |-> Or(state, "workMs", 1500000)])
  IN  Spread(turned, [isRunning |-> TRUE, lastUpdated |-> t])

\* The next state the onAlarm handler computes from the stored one.
onAlarmNext(state, t) ==
  LET completed == Or(state, "sessionsCompleted", 0) + 1
      useLong == completed % Or(state, "sessionsBeforeLong", 4) = 0
      turned ==
        IF Has(state, "mode") /\ state["mode"] = "work"
        THEN Spread(state, [sessionsCompleted |-> completed, mode |-> "break",
                            remainingMs |-> IF useLong THEN Or(state, "longBreakMs", 900000)
                                            ELSE Or(state, "breakMs", 300000)])
        ELSE Spread(state, [mode |-> "work", remainingMs |-> Or(state, "workMs", 1500000)])
  IN  Spread(turned, [isRunning |-> TRUE, lastUpdated |-> t])

\* chrome.alarms.create('pomodoro-end', {when}): the alarm of that name is
\* replaced; an undefined remainingMs gives no valid time and no alarm.
AlarmsCreate(state, t) ==
  IF Has(state, "remainingMs") THEN <<t + state["remainingMs"]>> ELSE <<>>

\* A request handler up to its first await, chrome.storage.local.get('pomodoro').
Request(action, arg) ==
  /\ Len(requests) < MaxProcs
  /\ requests' = Append(requests, [action |-> action, pc |-> "get", arg |-> arg,
                                   local |-> EmptyMap])
  /\ UNCHANGED <<extVars, now, isTrackingEnabled, activeTabs, sessionData, cbVars, commits,
                 storeVars, msgVars, pageVars>>

At(i, action, pc) == requests[i].action = action /\ requests[i].pc = pc

\* A step of a handler that touches the stored state or the alarm only.
PomodoroStep(reqs, stored, armed, resp) ==
  /\ requests' = reqs
  /\ pomodoro' = stored
  /\ alarm' = armed
  /\ response' = resp
  /\ UNCHANGED <<now, isTrackingEnabled, activeTabs, sessionData, cbVars, commits,
                 storeVars, inbox, pageVars, trackerPomodoro, requestedEnabled,
                 clearedUpTo, probe, blurred>>

\* The get has resolved: the handler goes on to its set of next.
ToSet(i, next) == [requests EXCEPT ![i].pc = "set", ![i].local = next]

PomoTickSteps == {1000}

PomoTick ==
  /\ \E d \in PomoTickSteps : now + d <= MaxPomoNow /\ now' = now + d
  /\ UNCHANGED <<extVars, isTrackingEnabled, activeTabs, sessionData, cbVars, commits,
                 storeVars, msgVars, pageVars, reqVars>>

\* The 'pomodoro-end' alarm goes off, at or after its time: the onAlarm
\* listener runs up to its first await.
AlarmFires ==
  /\ alarm # <<>> /\ DateNow(now) >= alarm[1]
  /\ Len(requests) < MaxProcs
  /\ PomodoroStep(Append(requests, [action |-> "onAlarm", pc |-> "get", arg |-> EmptyMap,
                                    local |-> EmptyMap]),
                  pomodoro, <<>>, response)

OnAlarmGet(i) ==
  /\ At(i, "onAlarm", "get")
  /\ PomodoroStep(ToSet(i, onAlarmNext(Stored, DateNow(now))), pomodoro, alarm, response)

\* A variant that creates no alarm.
OnAlarmSet_NoAlarm(i) ==
  /\ At(i, "onAlarm", "set")
  /\ PomodoroStep(Without(i), <<requests[i].local>>, alarm, response)

\* The set resolves and the next alarm is created.
OnAlarmSet(i) ==
  /\ At(i, "onAlarm", "set")
  /\ PomodoroStep(Without(i), <<requests[i].local>>,
                  AlarmsCreate(requests[i].local, DateNow(now)), response)

Success == <<[success |-> TRUE]>>

\* onMessage, action 'pomodoro:get'
PomodoroGet == Request("pomodoro:get", EmptyMap)

PomodoroGetDone(i) ==
  /\ At(i, "pomodoro:get", "get")
  /\ PomodoroStep(Without(i), pomodoro, alarm,
       <<[state |-> WithRemaining(Stored, getPomodoroRemaining(Stored, DateNow(now)))]>>)

\* onMessage, action 'pomodoro:start' with request.settings and
\* request.remainingMs (<<>> when the request carries none).
PomodoroStart(patch, remainingMs) ==
  Request("pomodoro:start", [settings |-> patch, remainingMs |-> remainingMs])

PomodoroStartGet(i) ==
  /\ At(i, "pomodoro:start", "get")
  /\ LET s == Spread(Stored, requests[i].arg.settings)
         remaining == IF requests[i].arg.remainingMs # <<>> THEN requests[i].arg.remainingMs
                      ELSE IF Has(s, "remainingMs") THEN <<s["remainingMs"]>> ELSE <<>>
         next == Spread(WithRemaining(s, remaining),
                        [isRunning |-> TRUE, lastUpdated |-> DateNow(now)])
     IN  PomodoroStep(ToSet(i, next), pomodoro, alarm, response)

PomodoroStartSet(i) ==
  /\ At(i, "pomodoro:start", "set")
  /\ PomodoroStep([requests EXCEPT ![i].pc = "clear"], <<requests[i].local>>, alarm, response)

\* alarms.clear resolves: the alarm is created and the response sent.
PomodoroStartClear(i) ==
  /\ At(i, "pomodoro:start", "clear")
  /\ PomodoroStep(Without(i), pomodoro, AlarmsCreate(requests[i].local, DateNow(now)),
                  Success)

\* onMessage, action 'pomodoro:pause'
PomodoroPause == Request("pomodoro:pause", EmptyMap)

\* A variant that keeps the stored remainingMs.
PomodoroPauseGet_StoredRemaining(i) ==
  /\ At(i, "pomodoro:pause", "get")
  /\ LET next == Spread(Stored, [isRunning |-> FALSE, lastUpdated |-> DateNow(now)])
     IN  PomodoroStep(ToSet(i, next), pomodoro, alarm, response)

PomodoroPauseGet(i) ==
  /\ At(i, "pomodoro:pause", "get")
  /\ LET next == Spread(WithRemaining(Stored, getPomodoroRemaining(Stored, DateNow(now))),
                        [isRunning |-> FALSE, lastUpdated |-> DateNow(now)])
     IN  PomodoroStep(ToSet(i, next), pomodoro, alarm, response)

PomodoroPauseSet(i) ==
  /\ At(i, "pomodoro:pause", "set")
  /\ PomodoroStep([requests EXCEPT ![i].pc = "clear"], <<requests[i].local>>, alarm, response)

PomodoroPauseClear(i) ==
  /\ At(i, "pomodoro:pause", "clear")
  /\ PomodoroStep(Without(i), pomodoro, <<>>, Success)

\* onMessage, action 'pomodoro:reset': defaults is built before the get.
PomodoroReset ==
  Request("pomodoro:reset",
          [mode |-> "work", isRunning |-> FALSE, remainingMs |-> 25 * 60 * 1000,
           sessionsCompleted |-> 0, lastUpdated |-> DateNow(now)])

PomodoroResetGet(i) ==
  /\ At(i, "pomodoro:reset", "get")
  /\ PomodoroStep(ToSet(i, Spread(Stored, requests[i].arg)), pomodoro, alarm, response)

PomodoroResetSet(i) ==
  /\ At(i, "pomodoro:reset", "set")
  /\ PomodoroStep([requests EXCEPT ![i].pc = "clear"], <<requests[i].local>>, alarm, response)

PomodoroResetClear(i) ==
  /\ At(i, "pomodoro:reset", "clear")
  /\ PomodoroStep(Without(i), pomodoro, <<>>, Success)

\* onMessage, action 'pomodoro:updateSettings' with request.settings
PomodoroUpdateSettings(patch) == Request("pomodoro:updateSettings", patch)

PomodoroUpdateSettingsGet(i) ==
  /\ At(i, "pomodoro:updateSettings", "get")
  /\ PomodoroStep(ToSet(i, Spread(Stored, requests[i].arg)), pomodoro, alarm, response)

PomodoroUpdateSettingsSet(i) ==
  /\ At(i, "pomodoro:updateSettings", "set")
  /\ PomodoroStep(Without(i), <<requests[i].local>>, alarm, Success)

\* The settings a popup sends, and a patch that names the countdown.
ConfigPatch == [workMs |-> 1000, breakMs |-> 1000, longBreakMs |-> 2000,
                sessionsBeforeLong |-> 2]
RemainingPatch == "remainingMs" :> 1000
\* request.remainingMs of a start: none, or one second.
Overrides == {<<>>, <<1000>>}

NextFocus ==
  \/ Tick
  \/ InitializeExistingTabs(TabUrls)
  \/ \E t \in Tabs : handleTabActivated(t)
  \/ \E t \in Tabs : TabsGetCallback(t, TabUrls)
  \/ \E t \in Tabs, u \in TabUrls : handleTabUpdated(t, u)
  \/ \E t \in Tabs : handleTabRemoved(t)
  \/ WindowBlur
  \/ WindowFocus
  \/ TabsQueryCallback(TabUrls)
  \/ \E e \in BOOLEAN : ToggleTracking(e)

SpecFocus == Init /\ [][NextFocus]_vars

\* The heartbeat channel on its own: pages of two tabs, and a sender without a
\* tab, send pageEvent messages with any of the timestamps.
NextPing ==
  \/ \E t \in Tabs, u \in PingUrls, ts \in PingTimes : SendPageEvent(t, u, ts)
  \/ \E t \in Tabs, u \in InternalUrls : SendPageEvent(t, u, 9999)
  \/ \E u \in PingUrls : SendPageEvent(NoTab, u, 9999)
  \/ HandlePageEvent

SpecPing == Init /\ [][NextPing]_vars

\* The heartbeat channel fed by the content script of one page.
NextPage ==
  \/ PageTick
  \/ \E u \in PingUrls, hidden \in BOOLEAN : PageLoad(u, hidden)
  \/ handleVisibilityChange
  \/ handleUserActivity
  \/ HeartbeatTimer
  \/ PageUnload
  \/ HandlePageEvent

SpecPage == Init /\ [][NextPage]_vars

\* The settings requests beside both channels: a tab that finishes loading and
\* is closed, and the pings of its page.
NextSettings ==
  \/ Tick
  \/ \E incoming \in SettingsInputs : SaveSettings(incoming)
  \/ \E i \in 1..Len(requests) : SaveSettingsGet(i)
  \/ \E i \in 1..Len(requests) : SaveSettingsSet(i)
  \/ \E u \in {UrlA1, UrlChrome} : handleTabUpdated(PageTab, u)
  \/ handleTabRemoved(PageTab)
  \/ \E ts \in {0, 9999} : SendPageEvent(PageTab, UrlA1, ts)
  \/ HandlePageEvent

SpecSettings == Init /\ [][NextSettings]_vars

\* Both channels on addresses of every scheme: tabs finish loading and are
\* closed, and their pages send pings.
NextInternal ==
  \/ \E t \in Tabs, u \in ClassUrls : handleTabUpdated(t, u)
  \/ \E t \in Tabs : handleTabRemoved(t)
  \/ \E t \in Tabs, u \in {UrlA1} \cup InternalUrls, ts \in {0, 9999} :
       SendPageEvent(t, u, ts)
  \/ HandlePageEvent

SpecInternal == Init /\ [][NextInternal]_vars

\* The commits of the tab-focus channel and their storage steps: tabs finish
\* loading and are closed while earlier commits are still in flight.
NextCommit ==
  \/ Tick
  \/ \E t \in Tabs, u \in VisitUrls : handleTabUpdated(t, u)
  \/ \E t \in Tabs : handleTabRemoved(t)
  \/ \E i \in 1..Len(commits) : SaveVisitGet(i)
  \/ \E i \in 1..Len(commits) : SaveVisitSet(i)
  \/ \E i \in 1..Len(commits) : UpdateStatisticsGet(i)
  \/ \E i \in 1..Len(commits) : UpdateStatisticsSet(i)

SpecCommit == Init /\ [][NextCommit]_vars

\* Tracking switched on and off by request, across the tab and window events,
\* their callbacks and the starts of the service worker.
NextToggle ==
  \/ \E e \in BOOLEAN : ToggleTracking(e)
  \/ InitializeExistingTabs({UrlA1, UrlNone})
  \/ \E t \in Tabs : handleTabActivated(t)
  \/ \E t \in Tabs : TabsGetCallback(t, {UrlA1})
  \/ \E t \in Tabs : handleTabUpdated(t, UrlA1)
  \/ \E t \in Tabs : handleTabRemoved(t)
  \/ WindowBlur
  \/ WindowFocus
  \/ TabsQueryCallback({UrlA1})
  \/ WorkerRestart
  \/ handleStartup
  \/ handleInstalled
  \/ \E i \in 1..Len(requests) : LoadStoredDataGet(i)
  \/ \E i \in 1..Len(requests) : LoadStoredDataSet(i)
  \/ \E i \in 1..Len(requests) : SetDefaultSettingsGet(i)
  \/ \E i \in 1..Len(requests) : SetDefaultSettingsSet(i)

SpecToggle == Init /\ [][NextToggle]_vars

\* clearData beside the commits of one tab and their storage steps.
NextClear ==
  \/ Tick
  \/ handleTabUpdated(PageTab, UrlA1)
  \/ handleTabRemoved(PageTab)
  \/ \E i \in 1..Len(commits) : SaveVisitGet(i)
  \/ \E i \in 1..Len(commits) : SaveVisitSet(i)
  \/ \E i \in 1..Len(commits) : UpdateStatisticsGet(i)
  \/ \E i \in 1..Len(commits) : UpdateStatisticsSet(i)
  \/ ClearData
  \/ \E i \in 1..Len(requests) : ClearDataDone(i)
  \/ \E i \in 1..Len(requests) : SetDefaultSettingsGet(i)
  \/ \E i \in 1..Len(requests) : SetDefaultSettingsSet(i)

SpecClear == Init /\ [][NextClear]_vars

\* The pomodoro timer with its handlers run one after the other: a request or
\* an alarm arrives when no handler is in flight, and loadStoredData has stored
\* the initial state at the start of the browser.
NextPomodoro ==
  \/ PomoTick
  \/ (requests = <<>> /\ pomodoro = <<>> /\ handleStartup)
  \/ \E i \in 1..Len(requests) : LoadStoredDataGet(i)
  \/ \E i \in 1..Len(requests) : LoadStoredDataSet(i)
  \/ (requests = <<>> /\ AlarmFires)
  \/ \E i \in 1..Len(requests) : OnAlarmGet(i)
  \/ \E i \in 1..Len(requests) : OnAlarmSet(i)
  \/ (requests = <<>> /\ PomodoroGet)
  \/ \E i \in 1..Len(requests) : PomodoroGetDone(i)
  \/ \E r \in Overrides : (requests = <<>> /\ PomodoroStart(EmptyMap, r))
  \/ \E i \in 1..Len(requests) : PomodoroStartGet(i)
  \/ \E i \in 1..Len(requests) : PomodoroStartSet(i)
  \/ \E i \in 1..Len(requests) : PomodoroStartClear(i)
  \/ (requests = <<>> /\ PomodoroPause)
  \/ \E i \in 1..Len(requests) : PomodoroPauseGet(i)
  \/ \E i \in 1..Len(requests) : PomodoroPauseSet(i)
  \/ \E i \in 1..Len(requests) : PomodoroPauseClear(i)
  \/ (requests = <<>> /\ PomodoroReset)
  \/ \E i \in 1..Len(requests) : PomodoroResetGet(i)
  \/ \E i \in 1..Len(requests) : PomodoroResetSet(i)
  \/ \E i \in 1..Len(requests) : PomodoroResetClear(i)
  \/ \E patch \in {ConfigPatch, RemainingPatch} :
       (requests = <<>> /\ PomodoroUpdateSettings(patch))
  \/ \E i \in 1..Len(requests) : PomodoroUpdateSettingsGet(i)
  \/ \E i \in 1..Len(requests) : PomodoroUpdateSettingsSet(i)

SpecPomodoro == Init /\ [][NextPomodoro]_vars

\* The alarm handler interleaved with pause and reset: a start arrives when no
\* handler is in flight, a pause or a reset when at most alarm handlers are.
OnlyAlarmHandlers == \A j \in 1..Len(requests) : requests[j].action = "onAlarm"

NextStale ==
  \/ PomoTick
  \/ (requests = <<>> /\ pomodoro = <<>> /\ handleStartup)
  \/ \E i \in 1..Len(requests) : LoadStoredDataGet(i)
  \/ \E i \in 1..Len(requests) : LoadStoredDataSet(i)
  \/ AlarmFires
  \/ \E i \in 1..Len(requests) : OnAlarmGet(i)
  \/ \E i \in 1..Len(requests) : OnAlarmSet(i)
  \/ (requests = <<>> /\ PomodoroStart(EmptyMap, <<1000>>))
  \/ \E i \in 1..Len(requests) : PomodoroStartGet(i)
  \/ \E i \in 1..Len(requests) : PomodoroStartSet(i)
  \/ \E i \in 1..Len(requests) : PomodoroStartClear(i)
  \/ (OnlyAlarmHandlers /\ PomodoroPause)
  \/ \E i \in 1..Len(requests) : PomodoroPauseGet(i)
  \/ \E i \in 1..Len(requests) : PomodoroPauseSet(i)
  \/ \E i \in 1..Len(requests) : PomodoroPauseClear(i)
  \/ (OnlyAlarmHandlers /\ PomodoroReset)
  \/ \E i \in 1..Len(requests) : PomodoroResetGet(i)
  \/ \E i \in 1..Len(requests) : PomodoroResetSet(i)
  \/ \E i \in 1..Len(requests) : PomodoroResetClear(i)

SpecStale == Init /\ [][NextStale]_vars

\* ------------------------------------------------- functions without state
\* The call is recorded in place of the one before it.
Called(fn, arg, out) ==
  /\ probe' = <<[fn |-> fn, arg |-> arg, out |-> out]>>
  /\ UNCHANGED <<now, isTrackingEnabled, activeTabs, sessionData, cbVars, commits,
                 storeVars, msgVars, pageVars, reqVars, pomoVars, requestedEnabled,
                 clearedUpTo, blurred>>

\* `${n}` for an integer n: its decimal digits.
Decimal(n) == ToString(n)

\* A variant that prints all the minutes beside the hours.
formatDuration_AllMinutes(milliseconds) ==
  LET minutes == (milliseconds \div 1000) \div 60
      hours == minutes \div 60
  IN  IF hours > 0 THEN Decimal(hours) \o "h " \o Decimal(minutes) \o "m"
      ELSE IF minutes > 0 THEN Decimal(minutes) \o "m"
      ELSE "<1m"

\* formatDuration, for milliseconds an integer >= 0 (Math.floor of the quotient).
formatDuration(milliseconds) ==
  LET seconds == milliseconds \div 1000
      minutes == seconds \div 60
      hours == minutes \div 60
  IN  IF hours > 0 THEN Decimal(hours) \o "h " \o Decimal(minutes % 60) \o "m"
      ELSE IF minutes > 0 THEN Decimal(minutes) \o "m"
      ELSE "<1m"

\* The durations formatted: around every whole minute up to MaxMinutes.
FormatInputs == {m * 60000 + r : m \in 0..MaxMinutes, r \in {0, 1, 59999}}

FormatDuration(milliseconds) ==
  Called("formatDuration", milliseconds, formatDuration(milliseconds))

NextFormat == \E d \in FormatInputs : FormatDuration(d)

SpecFormat == Init /\ [][NextFormat]_vars

\* The argument of a call of extractDomain: a string, or a value that is none
\* (undefined, a number).
StringArg(url) == [type |-> "string", value |-> url]
NonStringArgs == {[type |-> "undefined", value |-> <<>>], [type |-> "number", value |-> <<>>]}

\* How a block ends: with a thrown exception or with a returned value.
Threw == [threw |-> TRUE, value |-> <<>>]
Returned(v) == [threw |-> FALSE, value |-> v]

\* The try block of extractDomain: url.startsWith throws a TypeError for a
\* value that is no string, new URL(url) for a string it cannot parse.
extractDomainTry(arg) ==
  IF arg.type # "string" THEN Threw
  ELSE IF \E c \in InternalSchemes : StartsWith(arg.value, c) THEN Returned(extractDomain(arg.value))
  ELSE IF ParseURL(arg.value)[1] THEN Returned(extractDomain(arg.value))
  ELSE Threw

\* A variant without the catch.
extractDomainCall_NoCatch(arg) == extractDomainTry(arg)

\* extractDomain with its catch: whatever is thrown, 'unknown' is returned.
extractDomainCall(arg) ==
  IF extractDomainTry(arg).threw THEN Returned(Unknown) ELSE extractDomainTry(arg)

\* The hosts of up to n chunks, the empty one included.
RECURSIVE Hosts(_)
Hosts(n) ==
  IF n = 0 THEN {<<>>}
  ELSE Hosts(n - 1) \cup {Append(h, c) : h \in Hosts(n - 1), c \in HostChunks}

\* The addresses classified: no scheme or any of the schemes, a host, and a
\* path or none.
ClassifyInputs ==
  {scheme \o host \o path :
     scheme \in {<<>>} \cup {<<c>> : c \in HierSchemes \cup OpaqueSchemes \cup InternalSchemes},
     host \in Hosts(MaxHostChunks),
     path \in {<<>>, <<"/p1">>}}

ExtractDomain(arg) == Called("extractDomain", arg, extractDomainCall(arg))

NextClassify ==
  \/ \E url \in ClassifyInputs : ExtractDomain(StringArg(url))
  \/ \E arg \in NonStringArgs : ExtractDomain(arg)

SpecClassify == Init /\ [][NextClassify]_vars

\* Visits of one tab committed one after the other: the tab loads a page or is
\* closed only when no commit is in flight.
SeqTickSteps == {125000, 200000}

SeqTick ==
  /\ \E d \in SeqTickSteps : now + d <= MaxSeqNow /\ now' = now + d
  /\ UNCHANGED <<extVars, isTrackingEnabled, activeTabs, sessionData, cbVars, commits,
                 storeVars, msgVars, pageVars, reqVars>>

NextSequential ==
  \/ SeqTick
  \/ \E u \in {UrlG1, UrlG2} : (AllDone /\ handleTabUpdated(PageTab, u))
  \/ (AllDone /\ handleTabRemoved(PageTab))
  \/ \E i \in 1..Len(commits) : SaveVisitGet(i)
  \/ \E i \in 1..Len(commits) : SaveVisitSet(i)
  \/ \E i \in 1..Len(commits) : UpdateStatisticsGet(i)
  \/ \E i \in 1..Len(commits) : UpdateStatisticsSet(i)

SpecSequential == Init /\ [][NextSequential]_vars

\* Visits of one tab committed one after the other, with storage calls that
\* may reject.
NextFailure ==
  \/ SeqTick
  \/ \E u \in {UrlG1, UrlG2} : (Settled /\ handleTabUpdated(PageTab, u))
  \/ (Settled /\ handleTabRemoved(PageTab))
  \/ \E i \in 1..Len(commits) : SaveVisitGet(i)
  \/ \E i \in 1..Len(commits) : SaveVisitSet(i)
  \/ \E i \in 1..Len(commits) : UpdateStatisticsGet(i)
  \/ \E i \in 1..Len(commits) : UpdateStatisticsSet(i)
  \/ \E i \in 1..Len(commits) : SaveVisitGetRejects(i)
  \/ \E i \in 1..Len(commits) : SaveVisitSetRejects(i)
  \/ \E i \in 1..Len(commits) : UpdateStatisticsGetRejects(i)
  \/ \E i \in 1..Len(commits) : UpdateStatisticsSetRejects(i)

SpecFailure == Init /\ [][NextFailure]_vars

\* Requests without a case, while a tab is tracked and its page pings, commits
\* are stored, tracking is switched on and off, and the timer is started.
NextUnknown ==
  \/ Tick
  \/ handleTabUpdated(PageTab, UrlA1)
  \/ handleTabRemoved(PageTab)
  \/ \E i \in 1..Len(commits) : SaveVisitGet(i)
  \/ \E i \in 1..Len(commits) : SaveVisitSet(i)
  \/ \E i \in 1..Len(commits) : UpdateStatisticsGet(i)
  \/ \E i \in 1..Len(commits) : UpdateStatisticsSet(i)
  \/ \E e \in BOOLEAN : ToggleTracking(e)
  \/ SendPageEvent(PageTab, UrlA1, 0)
  \/ HandlePageEvent
  \/ (requests = <<>> /\ alarm = <<>> /\ PomodoroStart(EmptyMap, <<1000>>))
  \/ \E i \in 1..Len(requests) : PomodoroStartGet(i)
  \/ \E i \in 1..Len(requests) : PomodoroStartSet(i)
  \/ \E i \in 1..Len(requests) : PomodoroStartClear(i)
  \/ \E request \in UnknownRequests : SendRequest(request)
  \/ HandleUnknownRequest

SpecUnknown == Init /\ [][NextUnknown]_vars

\* The alarm goes off between two handlers.
AlarmFiresIdle == requests = <<>> /\ AlarmFires

\* The timer left to run, its handlers run one after the other: it is
\* configured and started (a start arrives when the stored timer is not
\* running, as the popup's toggle sends it) and never paused or reset.
NextProgress ==
  \/ PomoTick
  \/ (requests = <<>> /\ pomodoro = <<>> /\ handleStartup)
  \/ \E i \in 1..Len(requests) : LoadStoredDataGet(i)
  \/ \E i \in 1..Len(requests) : LoadStoredDataSet(i)
  \/ AlarmFiresIdle
  \/ \E i \in 1..Len(requests) : OnAlarmGet(i)
  \/ \E i \in 1..Len(requests) : OnAlarmSet(i)
  \/ (requests = <<>> /\ PomodoroUpdateSettings(ConfigPatch))
  \/ \E i \in 1..Len(requests) : PomodoroUpdateSettingsGet(i)
  \/ \E i \in 1..Len(requests) : PomodoroUpdateSettingsSet(i)
  \/ \E r \in Overrides : (requests = <<>> /\ ~IsRunning(Stored) /\ PomodoroStart(EmptyMap, r))
  \/ \E i \in 1..Len(requests) : PomodoroStartGet(i)
  \/ \E i \in 1..Len(requests) : PomodoroStartSet(i)
  \/ \E i \in 1..Len(requests) : PomodoroStartClear(i)

\* Time advances, an armed alarm whose time has come goes off however many
\* requests arrive, and every storage and alarms call of a handler in flight
\* resolves.
ProgressFairness ==
  /\ WF_vars(PomoTick)
  /\ SF_vars(AlarmFiresIdle)
  /\ WF_vars(\E i \in 1..Len(requests) : OnAlarmGet(i))
  /\ WF_vars(\E i \in 1..Len(requests) : OnAlarmSet(i))
  /\ WF_vars(\E i \in 1..Len(requests) : LoadStoredDataGet(i))
  /\ WF_vars(\E i \in 1..Len(requests) : LoadStoredDataSet(i))
  /\ WF_vars(\E i \in 1..Len(requests) : PomodoroUpdateSettingsGet(i))
  /\ WF_vars(\E i \in 1..Len(requests) : PomodoroUpdateSettingsSet(i))
  /\ WF_vars(\E i \in 1..Len(requests) : PomodoroStartGet(i))
  /\ WF_vars(\E i \in 1..Len(requests) : PomodoroStartSet(i))
  /\ WF_vars(\E i \in 1..Len(requests) : PomodoroStartClear(i))

SpecProgress == Init /\ [][NextProgress]_vars /\ ProgressFairness

\* Both channels on one tab: the tab finishes loading and is closed, and the
\* content script of the tab's page sends its messages while the page is
\* shown.
NextCross ==
  \/ PageTick
  \/ handleTabUpdated(PageTab, UrlA1)
  \/ handleTabRemoved(PageTab)
  \/ PageLoad(UrlA1, FALSE)
  \/ handleVisibilityChange
  \/ HeartbeatTimer
  \/ HandlePageEvent

SpecCross == Init /\ [][NextCross]_vars

\* The timer beside clearData, the handlers run one after the other: the timer
\* is started and paused, its alarm goes off, and the storage is cleared.
NextTimerClear ==
  \/ PomoTick
  \/ (requests = <<>> /\ pomodoro = <<>> /\ handleStartup)
  \/ \E i \in 1..Len(requests) : LoadStoredDataGet(i)
  \/ \E i \in 1..Len(requests) : LoadStoredDataSet(i)
  \/ AlarmFiresIdle
  \/ \E i \in 1..Len(requests) : OnAlarmGet(i)
  \/ \E i \in 1..Len(requests) : OnAlarmSet(i)
  \/ \E r \in Overrides : (requests = <<>> /\ PomodoroStart(EmptyMap, r))
  \/ \E i \in 1..Len(requests) : PomodoroStartGet(i)
  \/ \E i \in 1..Len(requests) : PomodoroStartSet(i)
  \/ \E i \in 1..Len(requests) : PomodoroStartClear(i)
  \/ (requests = <<>> /\ PomodoroPause)
  \/ \E i \in 1..Len(requests) : PomodoroPauseGet(i)
  \/ \E i \in 1..Len(requests) : PomodoroPauseSet(i)
  \/ \E i \in 1..Len(requests) : PomodoroPauseClear(i)
  \/ (requests = <<>> /\ ClearData)
  \/ \E i \in 1..Len(requests) : ClearDataDone(i)
  \/ \E i \in 1..Len(requests) : SetDefaultSettingsGet(i)
  \/ \E i \in 1..Len(requests) : SetDefaultSettingsSet(i)

SpecTimerClear == Init /\ [][NextTimerClear]_vars

\* Visits of one tab across midnight, committed one after the other: time
\* advances to one second before or one second after the next midnight (UTC).
MidnightSteps == {DayMs - 1000, DayMs + 1000}

MidnightTick ==
  /\ \E d \in MidnightSteps : now + d <= MaxDayNow /\ now' = now + d
  /\ UNCHANGED <<extVars, isTrackingEnabled, activeTabs, sessionData, cbVars, commits,
                 storeVars, msgVars, pageVars, reqVars>>

NextMidnight ==
  \/ MidnightTick
  \/ \E u \in VisitUrls : (AllDone /\ handleTabUpdated(PageTab, u))
  \/ (AllDone /\ handleTabRemoved(PageTab))
  \/ \E i \in 1..Len(commits) : SaveVisitGet(i)
  \/ \E i \in 1..Len(commits) : SaveVisitSet(i)
  \/ \E i \in 1..Len(commits) : UpdateStatisticsGet(i)
  \/ \E i \in 1..Len(commits) : UpdateStatisticsSet(i)

SpecMidnight == Init /\ [][NextMidnight]_vars

\* The whole program: every handler, callback, page event and storage step.
Next ==
  \/ NextFocus
  \/ NextPing
  \/ NextPage
  \/ NextSettings
  \/ NextCommit
  \/ NextInternal
  \/ NextToggle
  \/ NextClear
  \/ NextPomodoro
  \/ NextStale
  \/ NextSequential
  \/ NextFormat
  \/ NextClassify
  \/ NextFailure
  \/ NextUnknown
  \/ NextProgress
  \/ NextCross
  \/ NextTimerClear
  \/ NextMidnight

Spec == Init /\ [][Next]_vars


\* ================================================================ claims
Triple(c) == <<c.domain, c.duration, c.url>>

\* The sum of the durations of the commits whose indices are in I.
RECURSIVE SumDurations(_)
SumDurations(I) ==
  IF I = {} THEN 0
  ELSE LET i == CHOOSE x \in I : TRUE
       IN  commits[i].duration + SumDurations(I \ {i})

CommitsOf(key, domain) ==
  {i \in 1..Len(commits) : commits[i].key = key /\ commits[i].domain = domain}
CommitsOfUrl(key, domain, url) == {i \in CommitsOf(key, domain) : commits[i].url = url}
CommitsOfDomain(domain) == {i \in 1..Len(commits) : commits[i].domain = domain}
CommitKeys == {commits[i].key : i \in 1..Len(commits)}
CommitDomains == {commits[i].domain : i \in 1..Len(commits)}
CommitUrls == {commits[i].url : i \in 1..Len(commits)}

DailyRecord(vs, key, domain) == Lookup(Lookup(vs, key, EmptyMap), domain, DefaultRecord)

\* C1: single-focus invariant: activeTabs never holds more than one live
\* tracking session, whatever tab and window events and callbacks have occurred.
C1_SingleFocus == Len(activeTabs) <= 1

\* C2: no lost update on the daily record: once the daily write of every commit
\* has completed, the record of each day and domain has totalTime equal to the
\* sum of the durations committed to it, visitCount equal to their number, and
\* each url sub-total equal to the sum of the durations committed for that url.
DailyWritesDone == \A i \in 1..Len(commits) : commits[i].pc \in {"statGet", "statSet", "done"}

C2_NoLostDailyUpdate ==
  DailyWritesDone =>
    \A key \in CommitKeys, domain \in CommitDomains :
      LET rec == DailyRecord(visits, key, domain)
      IN  /\ rec.totalTime = SumDurations(CommitsOf(key, domain))
          /\ rec.visitCount = Cardinality(CommitsOf(key, domain))
          /\ \A url \in CommitUrls :
               Lookup(rec.urls, url, 0) = SumDurations(CommitsOfUrl(key, domain, url))

\* C3: no lost update on the all-time statistics: once every commit has
\* completed, statistics.totalTime is the sum of all durations, totalVisits is
\* the number of commits, and domains[d] holds the sum and the count of the
\* commits for d.
C3_NoLostStatisticsUpdate ==
  (AllDone /\ commits # <<>>) =>
    /\ statistics # <<>>
    /\ statistics[1].totalTime = SumDurations(1..Len(commits))
    /\ statistics[1].totalVisits = Len(commits)
    /\ \A domain \in CommitDomains :
         LET d == Lookup(statistics[1].domains, domain, DefaultDomainStats)
         IN  /\ d.totalTime = SumDurations(CommitsOfDomain(domain))
             /\ d.visitCount = Cardinality(CommitsOfDomain(domain))

\* C4: monotonic counters: from one persisted state to the next no daily
\* totalTime and not the all-time totalTime decreases, and the write of each
\* accepted commit raises the visitCount of its day and domain by exactly one.
StatisticsTotal(st) == IF st = <<>> THEN 0 ELSE st[1].totalTime

C4_MonotonicCounters ==
  [][/\ \A key \in CommitKeys, domain \in CommitDomains :
          DailyRecord(visits', key, domain).totalTime
            >= DailyRecord(visits, key, domain).totalTime
     /\ StatisticsTotal(statistics') >= StatisticsTotal(statistics)
     /\ \A i \in 1..Len(commits) :
          (commits[i].pc = "set" /\ commits'[i].pc = "statGet") =>
            DailyRecord(visits', commits[i].key, commits[i].domain).visitCount
              = DailyRecord(visits, commits[i].key, commits[i].domain).visitCount + 1
    ]_vars

\* C5: minimum-duration threshold: a step that stops live sessions issues, for
\* each stopped session in turn, no commit when d = now - startTime <= 1000 and
\* exactly one commit of (domain, d, url) when d > 1000, and the stopped sessions
\* are gone from activeTabs.  (A step that delivers a tabs.get or the initial
\* tabs.query callback calls no stop.)
StopStep ==
  /\ pendingInit' = pendingInit
  /\ \A t \in Tabs : pendingGet'[t] >= pendingGet[t]

C5_StopThreshold ==
  [][StopStep =>
       LET Gone(s) == \A j \in 1..Len(activeTabs') : activeTabs'[j] # s
           Long(s) == now - s.startTime > 1000
           stopped == SelectSeq(activeTabs, Gone)
           committed == SelectSeq(stopped, Long)
       IN  /\ Len(commits') = Len(commits) + Len(committed)
           /\ SubSeq(commits', 1, Len(commits)) = commits
           /\ \A k \in 1..Len(committed) :
                Triple(commits'[Len(commits) + k])
                  = <<committed[k].domain, now - committed[k].startTime, committed[k].url>>
    ]_vars

\* C5 witness: a session of 1001 ms has been stopped and committed, and no
\* session is live.
C5_Witness ==
  /\ activeTabs = <<>>
  /\ \E i \in 1..Len(commits) : commits[i].chan = "focus" /\ commits[i].duration = 1001


\* A handled pageEvent message: the message, and what the handler did.
Handled == inbox # <<>> /\ inbox' = <<>>
Clamp(x, lo, hi) == IF x < lo THEN lo ELSE IF x > hi THEN hi ELSE x
SameUrlPing(m) == Has(sessionData, m.tabId) /\ sessionData[m.tabId].url = m.url

\* C6: heartbeat commit rule: a ping of a tab whose stored session has the same
\* url commits nothing when delta = clamp(timestamp - lastTimestamp, 0, 60000)
\* is below 5000 and exactly one commit of delta (for that url) otherwise; the
\* baseline is the timestamp of the tab's preceding ping, committed or not,
\* because every such ping stores its own timestamp; and every committed
\* heartbeat delta lies in [5000, 60000].
C6_HeartbeatRule ==
  [][Handled =>
       LET m == inbox[1]
       IN  /\ SameUrlPing(m) =>
                LET delta == Clamp(m.timestamp - sessionData[m.tabId].lastTimestamp,
                                   0, 60000)
                IN  /\ delta < 5000 => commits' = commits
                    /\ delta >= 5000 =>
                         /\ Len(commits') = Len(commits) + 1
                         /\ SubSeq(commits', 1, Len(commits)) = commits
                         /\ commits'[Len(commits')].duration = delta
                         /\ commits'[Len(commits')].url = m.url
                         /\ commits'[Len(commits')].chan = "heartbeat"
                    /\ sessionData' = Put(sessionData, m.tabId,
                                          [lastTimestamp |-> m.timestamp, url |-> m.url])
           /\ \A i \in 1..Len(commits') :
                commits'[i].chan = "heartbeat" =>
                  commits'[i].duration >= 5000 /\ commits'[i].duration <= 60000
    ]_vars

\* C6 witness: a commit of exactly 5000 (the pings at 4999 and 9999: the ping
\* at 4999 committed nothing and is the baseline) and a commit clamped to 60000.
C6_Witness ==
  /\ \E i \in 1..Len(commits) : commits[i].chan = "heartbeat" /\ commits[i].duration = 5000
  /\ \E i \in 1..Len(commits) : commits[i].chan = "heartbeat" /\ commits[i].duration = 60000

\* C7: heartbeat baseline reset: a ping of a tab with no stored session, or
\* with a url other than the stored one, never commits; when it comes from a
\* tab and carries a trackable address it stores {lastTimestamp: timestamp, url}
\* for that tab and changes nothing else.
C7_BaselineReset ==
  [][Handled =>
       LET m == inbox[1]
       IN  ~SameUrlPing(m) =>
             /\ commits' = commits
             /\ (m.tabId # NoTab /\ m.url \notin InternalUrls) =>
                  sessionData' = Put(sessionData, m.tabId,
                                     [lastTimestamp |-> m.timestamp, url |-> m.url])
    ]_vars

\* C7 witness: one commit for the first address was made (by the pings at 4999
\* and 9999 of one tab), and now both tabs carry the second address with the
\* baseline 70000: that tab changed its address across a gap of 60001 ms and
\* the gap was not committed.
C7_Witness ==
  /\ Len(commits) = 1
  /\ commits[1].url = UrlA1 /\ commits[1].duration = 5000
  /\ \A t \in Tabs :
       Has(sessionData, t) /\ sessionData[t] = [lastTimestamp |-> 70000, url |-> UrlA2]


\* C8: liveness pings are sent only while the page is visible and the user
\* active, hence no heartbeat commit covers an interval in which the page was
\* hidden: whenever the handling of a page's message adds a commit, the page
\* was not hidden at any moment between its previous message and that one.
C8_NoHiddenTimeCommitted ==
  [][(Handled /\ Len(commits') > Len(commits)) => ~page.sentGap]_vars


\* C9: user-configured exclusions are honoured: while a domain is listed in the
\* persisted settings.excludedDomains, no step starts a tracking session for it
\* and no step issues a commit for it, on either channel.
UserExcluded(domain) ==
  /\ settings # <<>>
  /\ Has(settings[1], "excludedDomains")
  /\ \E k \in 1..Len(settings[1]["excludedDomains"]) :
       settings[1]["excludedDomains"][k] = domain

C9_ExclusionsHonoured ==
  [][/\ \A j \in 1..Len(activeTabs') :
          (\A k \in 1..Len(activeTabs) : activeTabs[k] # activeTabs'[j]) =>
            ~UserExcluded(activeTabs'[j].domain)
     /\ \A j \in (Len(commits) + 1)..Len(commits') : ~UserExcluded(commits'[j].domain)
    ]_vars


\* C10: internal addresses are never accounted: no session, no stored heartbeat
\* session and no commit carries an address beginning with chrome://,
\* chrome-extension://, about: or file://; a pageEvent with such an address is
\* answered {ok: false} and changes neither the commits nor sessionData; and no
\* ordinary http:// or https:// address is excluded: its ping from a tab is
\* answered {ok: true} and stored.  (Ordinary: the host is more than the bare
\* label "www."; that one host classifies as '' and is excluded.)
Internal(url) == \E c \in InternalSchemes : StartsWith(url, c)
Ordinary(url) ==
  /\ Len(url) >= 2 /\ url[1] \in HierSchemes /\ url[2] \in HostChunks
  /\ SubSeq(url, 2, HostEnd(url)) # <<"www.">>

C11_DisabledStaysIdle == requestedEnabled = <<FALSE>> => activeTabs = <<>>


\* C12: while tracking is disabled, by toggleTracking or by saveSettings with
\* trackingEnabled false (the last such request disabled it and the flag is off), data
\* collection is paused on every channel: a step that begins and ends with
\* tracking disabled issues no commit, neither for a heartbeat ping nor for a
\* session that was live when tracking was disabled.
Disabled == requestedEnabled = <<FALSE>> /\ ~isTrackingEnabled

C12_PausedNoCommit == [][(Disabled /\ Disabled') => Len(commits') = Len(commits)]_vars


\* C13: clearData removes all stored data: after a clearData has completed, no
\* daily record and no statistics hold anything of the commits issued before
\* it, also when such a commit was in flight at the clear: every stored total
\* and count is at most that of the commits issued since the clear.
SinceClear(I) == {i \in I : i > clearedUpTo}

C13_ClearRemovesAll ==
  /\ \A key \in CommitKeys, domain \in CommitDomains :
       LET rec == DailyRecord(visits, key, domain)
       IN  /\ rec.totalTime <= SumDurations(SinceClear(CommitsOf(key, domain)))
           /\ rec.visitCount <= Cardinality(SinceClear(CommitsOf(key, domain)))
  /\ StatisticsTotal(statistics) <= SumDurations(SinceClear(1..Len(commits)))


\* The step in which the handler of request i passes from pc to its end.
Ends(i, action, pc) == At(i, action, pc) /\ requests' = Without(i)

\* C14: derived remaining: when pomodoro:get is answered at wall time t + T for
\* a stored state with remainingMs = R and lastUpdated = t, the reported
\* remainingMs is R - T if the timer is running and T < R, 0 if it is running
\* and T >= R, and R if it is not running.
C14_DerivedRemaining ==
  [][\A i \in 1..Len(requests) :
       (Ends(i, "pomodoro:get", "get") /\ Has(Stored, "remainingMs")) =>
         LET R == Stored["remainingMs"]
             T == DateNow(now) - Stored["lastUpdated"]
             reported == response'[1].state["remainingMs"]
         IN  IF IsRunning(Stored)
             THEN (T < R => reported = R - T) /\ (T >= R => reported = 0)
             ELSE reported = R
    ]_vars

\* C14 witness: a running timer stored with 25 minutes has been reported, one
\* second later, with 1000 ms less.
C14_Witness ==
  /\ response # <<>> /\ Has(response[1], "state")
  /\ IsRunning(response[1].state) /\ IsRunning(Stored)
  /\ Has(Stored, "remainingMs") /\ Stored["remainingMs"] = 1500000
  /\ Has(response[1].state, "remainingMs") /\ response[1].state["remainingMs"] = 1499000


\* The keys of a whole pomodoro state, and the configuration among them.
ConfigKeys == {"workMs", "breakMs", "longBreakMs", "sessionsBeforeLong"}
StateKeys == ConfigKeys \cup {"mode", "isRunning", "remainingMs", "sessionsCompleted",
                              "lastUpdated"}
Whole(state) == DOMAIN state = StateKeys

\* C15: expiry transition: the state the onAlarm handler persists, for a whole
\* stored state, is: from mode work, sessionsCompleted + 1 and mode break with
\* remainingMs = longBreakMs when the new sessionsCompleted is a multiple of
\* sessionsBeforeLong and breakMs otherwise; from mode break, mode work with
\* remainingMs = workMs and sessionsCompleted unchanged; the configuration is
\* unchanged.
C15_ExpiryTransition ==
  [][\A i \in 1..Len(requests) :
       (Ends(i, "onAlarm", "set") /\ Whole(Stored)) =>
         LET pre == Stored
             post == pomodoro'[1]
         IN  /\ \A k \in ConfigKeys : post[k] = pre[k]
             /\ pre["mode"] = "work" =>
                  /\ post["sessionsCompleted"] = pre["sessionsCompleted"] + 1
                  /\ post["mode"] = "break"
                  /\ post["remainingMs"] =
                       IF post["sessionsCompleted"] % pre["sessionsBeforeLong"] = 0
                       THEN pre["longBreakMs"] ELSE pre["breakMs"]
             /\ pre["mode"] = "break" =>
                  /\ post["sessionsCompleted"] = pre["sessionsCompleted"]
                  /\ post["mode"] = "work"
                  /\ post["remainingMs"] = pre["workMs"]
    ]_vars

\* C15 witness: the second work session has expired into the long break (after
\* a short break and a return to work), and the next alarm is armed.
C15_Witness ==
  /\ Whole(Stored) /\ alarm # <<>>
  /\ Stored["mode"] = "break" /\ Stored["sessionsCompleted"] = 2
  /\ Stored["sessionsBeforeLong"] = 2
  /\ Stored["remainingMs"] = 2000 /\ Stored["longBreakMs"] = 2000


\* The step in which the set of the handler of request i resolves and the
\* handler goes on to alarms.clear.
Persists(i, action) ==
  At(i, action, "set") /\ requests' = [requests EXCEPT ![i].pc = "clear"]

\* C16: reset: the state a reset persists, for a whole stored state, has mode
\* work, isRunning false, sessionsCompleted 0 and remainingMs equal to the
\* configured workMs, and the configuration unchanged.
C16_ResetToConfigured ==
  [][\A i \in 1..Len(requests) :
       (Persists(i, "pomodoro:reset") /\ Whole(Stored)) =>
         LET post == pomodoro'[1]
         IN  /\ \A k \in ConfigKeys : post[k] = Stored[k]
             /\ post["mode"] = "work"
             /\ ~post["isRunning"]
             /\ post["sessionsCompleted"] = 0
             /\ post["remainingMs"] = post["workMs"]
    ]_vars


\* The step in which the get of the handler of request i resolves and the
\* handler goes on to its set.
Computes(i, action) ==
  /\ At(i, action, "get")
  /\ Len(requests') = Len(requests) /\ requests'[i].pc = "set"

\* C17: pause stores the live-derived remaining time: pausing, at wall time
\* t + T, a running timer stored whole with remainingMs = R and lastUpdated = t
\* computes and then persists a state with isRunning false and remainingMs =
\* max(0, R - T) and with the mode, sessionsCompleted and the configuration of
\* the stored state, and when it is acknowledged no alarm is armed.
C17_PauseStoresDerived ==
  [][\A i \in 1..Len(requests) :
       /\ (Computes(i, "pomodoro:pause") /\ Whole(Stored) /\ IsRunning(Stored)) =>
            LET next == requests'[i].local
                R == Stored["remainingMs"]
                T == DateNow(now) - Stored["lastUpdated"]
            IN  /\ ~next["isRunning"]
                /\ next["remainingMs"] = Max(0, R - T)
                /\ \A k \in ConfigKeys \cup {"mode", "sessionsCompleted"} :
                     next[k] = Stored[k]
       /\ Persists(i, "pomodoro:pause") => pomodoro' = <<requests[i].local>>
       /\ Ends(i, "pomodoro:pause", "clear") => alarm' = <<>>
    ]_vars

\* C17 witness: a timer started with 25 minutes has been paused one second
\* later: 1499000 ms are stored, the pause is acknowledged, no alarm is armed.
C17_Witness ==
  /\ Whole(Stored) /\ ~IsRunning(Stored)
  /\ Stored["remainingMs"] = 1499000
  /\ alarm = <<>> /\ requests = <<>> /\ response = Success


\* state[k], <<>> when undefined
Field(state, k) == IF Has(state, k) THEN <<state[k]>> ELSE <<>>

\* A pause or a reset has been acknowledged and no start has arrived since: the
\* stored state is whole and not running, no alarm is armed, and at most alarm
\* handlers are in flight.
Superseded ==
  /\ Whole(Stored) /\ ~IsRunning(Stored)
  /\ alarm = <<>>
  /\ OnlyAlarmHandlers

\* C18: no stale wake-up: once pause or reset has been acknowledged, and until
\* a start arrives, no step (of an alarm handler in flight) makes the stored
\* state running or changes its mode or its sessionsCompleted.
C18_NoStaleWakeUp ==
  [][Superseded =>
       /\ ~IsRunning(IF pomodoro' = <<>> THEN EmptyMap ELSE pomodoro'[1])
       /\ Field(pomodoro'[1], "mode") = Field(Stored, "mode")
       /\ Field(pomodoro'[1], "sessionsCompleted") = Field(Stored, "sessionsCompleted")
    ]_vars


\* C19: armed wake-up matches the persisted end time: a start computes, at its
\* time now, a state with isRunning true, remainingMs = the override if given
\* else the stored remainingMs, and lastUpdated = now; and when a start or an
\* expiry arms the alarm, the stored state is running and the alarm is due at
\* exactly lastUpdated + remainingMs.
C19_AlarmMatchesEnd ==
  [][\A i \in 1..Len(requests) :
       /\ (Computes(i, "pomodoro:start") /\ Whole(Stored)) =>
            LET next == requests'[i].local
            IN  /\ next["isRunning"]
                /\ next["lastUpdated"] = DateNow(now)
                /\ next["remainingMs"] =
                     IF requests[i].arg.remainingMs # <<>> THEN requests[i].arg.remainingMs[1]
                     ELSE Stored["remainingMs"]
       /\ ((Ends(i, "pomodoro:start", "clear") \/ Ends(i, "onAlarm", "set"))
             /\ Whole(requests[i].local)) =>
            /\ Whole(pomodoro'[1]) /\ IsRunning(pomodoro'[1])
            /\ alarm' = <<pomodoro'[1]["lastUpdated"] + pomodoro'[1]["remainingMs"]>>
    ]_vars


\* C20: updateSettings changes only configuration: whatever the patch, the
\* state an updateSettings persists over a whole stored state has the mode, isRunning, remainingMs,
\* sessionsCompleted and lastUpdated of the stored state, and the alarm is as
\* it was.
C20_UpdateSettingsFrame ==
  [][\A i \in 1..Len(requests) :
       (Ends(i, "pomodoro:updateSettings", "set") /\ Whole(Stored)) =>
         /\ \A k \in StateKeys \ ConfigKeys : Field(pomodoro'[1], k) = Field(Stored, k)
         /\ alarm' = alarm
    ]_vars


\* The focus-timer requests, and the step in which the handler of request i
\* sends its response.
PomodoroActions == {"pomodoro:get", "pomodoro:start", "pomodoro:pause", "pomodoro:reset",
                    "pomodoro:updateSettings"}
Answers(i) == requests[i].action \in PomodoroActions /\ requests' = Without(i)

\* C21: each focus-timer request (get, start, pause, reset, updateSettings) on
\* a whole stored state is answered with the current timer state, its
\* remainingMs the live-derived remaining; and get changes neither the stored
\* state nor the alarm.
C21_AnsweredWithState ==
  [][\A i \in 1..Len(requests) :
       /\ (Answers(i) /\ Whole(Stored)) =>
            LET current == pomodoro'[1]
            IN  /\ response' # <<>> /\ Has(response'[1], "state")
                /\ response'[1].state =
                     WithRemaining(current, getPomodoroRemaining(current, DateNow(now)))
       /\ Ends(i, "pomodoro:get", "get") => pomodoro' = pomodoro /\ alarm' = alarm
    ]_vars


\* The step in which the daily write of commit i completes.
DailyWrite(i) == commits[i].pc = "set" /\ commits'[i].pc = "statGet"
DomainG == <<"google.com">>

\* C22: sequential commits accumulate per domain and per url: the daily write
\* of a commit issued after the earlier ones have completed adds its duration
\* to the record's totalTime and to urls[url] and 1 to visitCount, starting
\* from zero when the day has no record of the domain, and leaves the other
\* urls as they were; and once commit(google.com, 125000, u1) and then
\* commit(google.com, 200000, u2) have completed on an empty day, the day's
\* record of google.com is {totalTime: 325000, visitCount: 2,
\* urls: {u1: 125000, u2: 200000}}.
C22_SequentialAccumulate ==
  [][/\ \A i \in 1..Len(commits) :
          DailyWrite(i) =>
            LET c == commits[i]
                day == Lookup(visits, c.key, EmptyMap)
                old == IF Has(day, c.domain) THEN day[c.domain] ELSE DefaultRecord
                new == visits'[c.key][c.domain]
            IN  /\ new.totalTime = old.totalTime + c.duration
                /\ new.visitCount = old.visitCount + 1
                /\ new.urls[c.url] = Lookup(old.urls, c.url, 0) + c.duration
                /\ \A u \in DOMAIN new.urls \ {c.url} :
                     Has(old.urls, u) /\ new.urls[u] = old.urls[u]
                /\ DOMAIN old.urls \subseteq DOMAIN new.urls
     /\ (/\ AllDone /\ Len(commits) = 2
         /\ Triple(commits[1]) = <<DomainG, 125000, UrlG1>>
         /\ Triple(commits[2]) = <<DomainG, 200000, UrlG2>>
         /\ commits[1].key = commits[2].key) =>
           visits[commits[1].key][DomainG]
             = [totalTime |-> 325000, visitCount |-> 2,
                urls |-> (UrlG1 :> 125000) @@ (UrlG2 :> 200000)]
    ]_vars

\* C22 witness: the two commits of the scenario have completed and the record
\* holds their sum.
C22_Witness ==
  /\ AllDone /\ Len(commits) = 2
  /\ Triple(commits[1]) = <<DomainG, 125000, UrlG1>>
  /\ Triple(commits[2]) = <<DomainG, 200000, UrlG2>>
  /\ Has(visits, 0) /\ Has(visits[0], DomainG) /\ visits[0][DomainG].totalTime = 325000


\* The calls of fn among the recorded ones.
CallsOf(fn) == {probe[k] : k \in {j \in 1..Len(probe) : probe[j].fn = fn}}

\* C23: formatDuration: for every integer d with 0 <= d < 60000 the result is
\* "<1m"; for 60000 <= d < 3600000 it is floor(d/60000) followed by "m"; for
\* d >= 3600000 it is floor(d/3600000) "h " (floor(d/60000) mod 60) "m";
\* 5400000 gives "1h 30m" and 9000000 gives "2h 30m".
C23_FormatDuration ==
  \A c \in CallsOf("formatDuration") :
    LET d == c.arg
    IN  /\ (0 <= d /\ d < 60000) => c.out = "<1m"
        /\ (60000 <= d /\ d < 3600000) => c.out = Decimal(d \div 60000) \o "m"
        /\ d >= 3600000 =>
             c.out = Decimal(d \div 3600000) \o "h " \o Decimal((d \div 60000) % 60) \o "m"
        /\ d = 5400000 => c.out = "1h 30m"
        /\ d = 9000000 => c.out = "2h 30m"

\* C23 witness: 9000000 has been formatted as "2h 30m".
C23_Witness == probe = <<[fn |-> "formatDuration", arg |-> 9000000, out |-> "2h 30m"]>>


\* The host of an http:// or https:// address that parses.
HostOf(url) == SubSeq(url, 2, HostEnd(url))
\* A hostname with its leading "www." label, if it has one, removed.
StripLeadingWww(host) == IF StartsWith(host, "www.") THEN Tail(host) ELSE host

\* C24: the classifier on an ordinary (http:// or https://) address returns the
\* hostname with only a leading "www." removed and the rest unchanged: a
\* hostname in which "www." occurs elsewhere than at the start is returned
\* with that occurrence in place.
C24_LeadingWwwOnly ==
  \A c \in CallsOf("extractDomain") :
    (/\ c.arg.type = "string"
     /\ \E scheme \in HierSchemes : StartsWith(c.arg.value, scheme)
     /\ ParseURL(c.arg.value)[1]) =>
      c.out = Returned(StripLeadingWww(HostOf(c.arg.value)))


\* C25: the classifier is total and deterministic: no call throws; an address
\* that starts with chrome://, chrome-extension://, about: or file:// gives
\* that prefix whatever follows it; an argument that is no string, or a string
\* that does not parse, gives "unknown"; and a call with the argument of the
\* call before it gives the result of the call before it.
C25_TotalDeterministic ==
  [][/\ \A c \in CallsOf("extractDomain")' :
          /\ ~c.out.threw
          /\ \A prefix \in InternalSchemes :
               (c.arg.type = "string" /\ StartsWith(c.arg.value, prefix)) =>
                 c.out.value = <<prefix>>
          /\ (\/ c.arg.type # "string"
              \/ /\ \A prefix \in InternalSchemes : ~StartsWith(c.arg.value, prefix)
                 /\ ~ParseURL(c.arg.value)[1]) =>
               c.out.value = Unknown
     /\ (/\ probe # <<>> /\ probe' # <<>>
         /\ probe[1].fn = "extractDomain" /\ probe'[1].fn = "extractDomain"
         /\ probe'[1].arg = probe[1].arg) =>
           probe'[1].out = probe[1].out
    ]_vars

\* C25 witness: a call without an address has returned "unknown".
C25_Witness ==
  probe = <<[fn |-> "extractDomain", arg |-> [type |-> "undefined", value |-> <<>>],
             out |-> Returned(Unknown)]>>


\* The commits none of whose storage calls rejected.
Succeeded(I) == {i \in I : commits[i].pc = "done"}

\* C26: a storage failure drops the increment: once every commit has returned,
\* the daily records and the statistics hold the durations and the visits of
\* exactly the commits none of whose storage calls rejected: a commit with a
\* rejected call is in neither record, and the commits after it are in both.
C26_FailureDropsIncrement ==
  Settled =>
    /\ \A key \in CommitKeys, domain \in CommitDomains :
         LET rec == DailyRecord(visits, key, domain)
         IN  /\ rec.totalTime = SumDurations(Succeeded(CommitsOf(key, domain)))
             /\ rec.visitCount = Cardinality(Succeeded(CommitsOf(key, domain)))
    /\ StatisticsTotal(statistics) = SumDurations(Succeeded(1..Len(commits)))
    /\ (IF statistics = <<>> THEN 0 ELSE statistics[1].totalVisits)
         = Cardinality(Succeeded(1..Len(commits)))


\* C27: a request whose action is unrecognized or missing, and whose type is
\* not pageEvent, is a no-op: the step that handles it sends no response and
\* leaves the live sessions, the heartbeat sessions, the tracking flag, every
\* stored record, the calls in flight and the alarm as they were.
C27_UnknownRequestNoOp ==
  [][(Handled /\ inbox[1].type # <<"pageEvent">>
        /\ \A a \in TrackerActions \cup TimerActions : inbox[1].action # <<a>>) =>
       /\ response' = response
       /\ UNCHANGED <<activeTabs, sessionData, isTrackingEnabled, visits, statistics,
                      settings, pomodoro, alarm, commits, requests, trackerPomodoro>>
    ]_vars

\* C27 witness: a request has been handled and not answered (only a request
\* without a case is), with a session live, a heartbeat session stored, a
\* visit stored and the alarm armed.
C27_Witness ==
  /\ inbox = <<>> /\ response = <<>>
  /\ activeTabs # <<>> /\ Has(sessionData, PageTab)
  /\ statistics # <<>> /\ alarm # <<>>


\* C28: window blur ends tracking: after a window-focus event that reports no
\* focused window no session is live, and until a tab-activated, tab-updated or
\* window-focus-gained event occurs no step makes a session live, the delivery
\* of a tabs.get or tabs.query callback issued before the blur included.  (The
\* callback of the query issued when the worker starts is set aside.)
C28_BlurEndsTracking ==
  [][/\ (~blurred /\ blurred') => activeTabs' = <<>>
     /\ (blurred /\ blurred' /\ pendingInit' = pendingInit) =>
          \A j \in 1..Len(activeTabs') :
            \E k \in 1..Len(activeTabs) : activeTabs[k] = activeTabs'[j]
    ]_vars


\* C29: timer-state serialization: the operations on the stored timer state
\* take effect one at a time, so a transition persisted by one of them is not
\* overwritten by another that read the state before it: the state a pause
\* persists has the mode and the sessionsCompleted of the state stored at that
\* moment (a pause changes neither), whatever expiry was handled between its
\* get and its set.
C29_TimerSerialized ==
  [][\A i \in 1..Len(requests) :
       (Persists(i, "pomodoro:pause") /\ Whole(Stored) /\ Whole(requests[i].local)) =>
         /\ pomodoro'[1]["mode"] = Stored["mode"]
         /\ pomodoro'[1]["sessionsCompleted"] = Stored["sessionsCompleted"]
    ]_vars


\* The timer runs in mode m with its alarm armed for a time the clock reaches.
Counting(m) ==
  /\ Whole(Stored) /\ IsRunning(Stored) /\ Stored["mode"] = m
  /\ alarm # <<>> /\ alarm[1] <= DateNow(MaxPomoNow)
\* The timer runs in the mode after m with its alarm armed.
Turned(m) ==
  /\ Whole(Stored) /\ IsRunning(Stored) /\ Stored["mode"] # m
  /\ alarm # <<>>

\* C30 as stated: no segment is left running without an armed alarm: whenever
\* the stored timer is running and no handler is in flight, the alarm is armed.
C30_RunningHasAlarm == (IsRunning(Stored) /\ requests = <<>>) => alarm # <<>>

\* C30, for a timer whose stored state is whole: with the alarm fired at or
\* after its time and neither pause nor reset, a running timer whose alarm is
\* armed expires: the other mode is stored as running with a new alarm armed
\* (work, break, work, ...); and no whole running state is left without an
\* armed alarm once the handlers have returned.
C30_TimerProgress ==
  /\ []((Whole(Stored) /\ IsRunning(Stored) /\ requests = <<>>) => alarm # <<>>)
  /\ \A m \in {"work", "break"} : Counting(m) ~> Turned(m)

\* C30 witness: a work segment and the break after it have expired: the second
\* work segment is running, one session completed, its alarm armed.
C30_Witness ==
  /\ Whole(Stored) /\ IsRunning(Stored) /\ alarm # <<>> /\ requests = <<>>
  /\ Stored["mode"] = "work" /\ Stored["sessionsCompleted"] = 1


\* C31: cross-channel double counting: the two channels commit for the same
\* tab without regard to each other.  The handling of a same-url ping whose
\* clamped delta is at least 5000 commits that delta also while a session of
\* the tab is live, and leaves that session and its startTime as they were;
\* a stop of a live session longer than 1000 ms commits the whole of
\* now - startTime, whatever the heartbeat channel committed for the tab since
\* startTime, and leaves the heartbeat sessions as they were.
C31_ChannelsIndependent ==
  [][/\ (Handled /\ inbox[1].type = <<"pageEvent">> /\ SameUrlPing(inbox[1])) =>
          LET m == inbox[1]
              delta == Clamp(m.timestamp - sessionData[m.tabId].lastTimestamp, 0, 60000)
          IN  /\ activeTabs' = activeTabs
              /\ delta >= 5000 =>
                   /\ Len(commits') = Len(commits) + 1
                   /\ commits'[Len(commits')].duration = delta
                   /\ commits'[Len(commits')].chan = "heartbeat"
     /\ \A j \in 1..Len(activeTabs) :
          (/\ TabIndex(activeTabs', activeTabs[j].tabId) = 0
           /\ now - activeTabs[j].startTime > 1000) =>
             /\ sessionData' = sessionData
             /\ \E i \in (Len(commits) + 1)..Len(commits') :
                  /\ commits'[i].chan = "focus"
                  /\ commits'[i].duration = now - activeTabs[j].startTime
    ]_vars

\* C31 witness: both channels have committed for the domain of the one tab,
\* and the durations committed exceed the wall-clock time that has passed
\* since the start, whatever part of it the tab was viewed.
C31_Witness ==
  /\ \E i \in 1..Len(commits) : commits[i].chan = "focus" /\ commits[i].domain = DomainA
  /\ \E i \in 1..Len(commits) : commits[i].chan = "heartbeat" /\ commits[i].domain = DomainA
  /\ SumDurations(1..Len(commits)) > now


\* C32: stopping a tab that has no live session is a no-op: stopTrackingTab
\* returns the sessions and the calls of saveVisitData as they were, and the
\* handling of the removal of such a tab issues no commit and changes no
\* session, no heartbeat session and no stored record.
C32_StopAbsentNoOp ==
  [][\A t \in Tabs :
       TabIndex(activeTabs, t) = 0 =>
         /\ stopTrackingTab(Cur, t) = Cur
         /\ handleTabRemoved(t) =>
              UNCHANGED <<activeTabs, commits, sessionData, visits, statistics, settings>>
    ]_vars

\* C32 witness: the second tab has no session while the session of the first
\* is live, a commit is in flight and records are stored: the removal of the
\* second tab is a step from this state to itself.
C32_Witness ==
  /\ Len(activeTabs) = 1 /\ activeTabs[1].tabId = 1
  /\ TabIndex(activeTabs, 2) = 0
  /\ visits # EmptyMap /\ statistics # <<>>
  /\ \E i \in 1..Len(commits) : commits[i].pc # "done"


\* C33: no session is dropped uncounted: a live session ends only by a stop
\* that evaluates its duration, and is never overwritten by a new session of
\* its tab: in every step in which a session that has been live for more than
\* 1000 ms ceases to be in activeTabs, a commit of its domain, its duration
\* now - startTime and its url is issued.
C33_NoSessionDropped ==
  [][\A j \in 1..Len(activeTabs) :
       LET s == activeTabs[j]
       IN  (/\ \A k \in 1..Len(activeTabs') : activeTabs'[k] # s
            /\ now - s.startTime > MinVisitMs) =>
             \E i \in (Len(commits) + 1)..Len(commits') :
               Triple(commits'[i]) = <<s.domain, now - s.startTime, s.url>>
    ]_vars


\* The sum of field over the daily records of the domain for the days in K,
\* and over the all-time records of the domains in D.
RECURSIVE DailySum(_, _, _)
DailySum(K, domain, field) ==
  IF K = {} THEN 0
  ELSE LET k == CHOOSE x \in K : TRUE
       IN  DailyRecord(visits, k, domain)[field] + DailySum(K \ {k}, domain, field)

RECURSIVE DomainSum(_, _, _)
DomainSum(D, domains, field) ==
  IF D = {} THEN 0
  ELSE LET d == CHOOSE x \in D : TRUE
       IN  domains[d][field] + DomainSum(D \ {d}, domains, field)

\* The domains that have a daily record.
DailyDomains == UNION {DOMAIN visits[k] : k \in DOMAIN visits}

\* C34: daily and all-time records agree: whenever no commit is in flight (and
\* no clear has occurred), the all-time totalTime and visitCount of every domain
\* are the sums of that domain's totalTime and visitCount over the daily
\* records, the domains of both are the same, and statistics.totalTime and
\* totalVisits are the sums over the domains.
C34_RecordsAgree ==
  (AllDone /\ clearedUpTo = 0) =>
    LET domains == IF statistics = <<>> THEN EmptyMap ELSE statistics[1].domains
    IN  /\ DOMAIN domains = DailyDomains
        /\ \A d \in DOMAIN domains :
             /\ domains[d].totalTime = DailySum(DOMAIN visits, d, "totalTime")
             /\ domains[d].visitCount = DailySum(DOMAIN visits, d, "visitCount")
        /\ statistics # <<>> =>
             /\ statistics[1].totalTime = DomainSum(DOMAIN domains, domains, "totalTime")
             /\ statistics[1].totalVisits = DomainSum(DOMAIN domains, domains, "visitCount")


\* C35: whenever no request is in flight and the stored timer state is absent
\* or not running, no 'pomodoro-end' alarm is armed, after any sequence of
\* timer requests, expiries and clearData.
C35_IdleHasNoAlarm == (requests = <<>> /\ ~IsRunning(Stored)) => alarm = <<>>


\* The remaining time derived from the stored state at the current time.
Derived == getPomodoroRemaining(Stored, DateNow(now))[1]

\* A step within one running segment: the stored state is whole and running
\* before and after it, no expiry is persisted by it, and no request that
\* names a remainingMs (a start with an override, an updateSettings whose
\* patch holds one) is.
SegmentStep ==
  /\ Whole(Stored) /\ IsRunning(Stored)
  /\ Whole(Stored') /\ IsRunning(Stored')
  /\ \A i \in 1..Len(requests) :
       /\ ~Ends(i, "onAlarm", "set")
       /\ ~(Persists(i, "pomodoro:start") /\ requests[i].arg.remainingMs # <<>>)
       /\ ~(Ends(i, "pomodoro:updateSettings", "set") /\ Has(requests[i].arg, "remainingMs"))

\* C36: within one running segment the derived remaining time never increases
\* as wall time advances, whatever start, updateSettings and get requests are
\* processed; a start without an override issued while the timer is running
\* does not give back elapsed time.
C36_RemainingNeverIncreases == [][SegmentStep => Derived' <= Derived]_vars


\* The stored state is whole and the timer paused.
Paused == Whole(Stored) /\ ~IsRunning(Stored)

\* The stored part of the round trip: a start without an override on a paused
\* timer computes a running state with the stored remainingMs, however long
\* ago it was stored, and a pause of a paused timer computes the stored
\* remainingMs.
RoundTripStored(i) ==
  /\ (Computes(i, "pomodoro:start") /\ requests[i].arg.remainingMs = <<>> /\ Paused) =>
       /\ requests'[i].local["isRunning"]
       /\ requests'[i].local["remainingMs"] = Stored["remainingMs"]
       /\ requests'[i].local["lastUpdated"] = DateNow(now)
  /\ (Computes(i, "pomodoro:pause") /\ Paused) =>
       requests'[i].local["remainingMs"] = Stored["remainingMs"]

\* C37: pause/start round trip: a start without an override on a paused timer
\* resumes with exactly the remainingMs the pause stored, however long the
\* timer stayed paused, and a pause of a paused timer leaves remainingMs as it
\* was; so the unpaused wall time of a segment before its alarm is due is the
\* segment's duration: the alarm of the resumed timer is due remainingMs
\* after the time of the resume.
C37_PauseStartRoundTrip ==
  [][\A i \in 1..Len(requests) :
       /\ RoundTripStored(i)
       /\ (/\ Ends(i, "pomodoro:start", "clear") /\ requests[i].arg.remainingMs = <<>>
           /\ Whole(requests[i].local)) =>
            alarm' = <<requests[i].local["lastUpdated"] + requests[i].local["remainingMs"]>>
    ]_vars

\* The stored part alone.
C37_RoundTripStoredOnly == [][\A i \in 1..Len(requests) : RoundTripStored(i)]_vars


\* C38: the in-memory tracking flag agrees with the persisted setting: whenever
\* no request is in flight and settings are stored, isTrackingEnabled is true
\* exactly when the stored settings.trackingEnabled is, after any sequence of
\* toggleTracking requests and of starts of the service worker.
C38_FlagAgreesWithSettings ==
  (requests = <<>> /\ settings # <<>>) =>
    (isTrackingEnabled <=>
       (Has(settings[1], "trackingEnabled") /\ settings[1]["trackingEnabled"]))


\* C39: day attribution: a commit is credited in full to the daily record of
\* the UTC date at the moment it is issued (the stop time), never split and
\* never credited to the date on which the session started: the commit carries
\* the day of the stop, and its daily write adds its whole duration to that
\* day's record of the domain and leaves the records of every other day as
\* they were.
C39_CreditedToStopDay ==
  [][/\ \A i \in (Len(commits) + 1)..Len(commits') : commits'[i].key = now \div DayMs
     /\ \A i \in 1..Len(commits) :
          DailyWrite(i) =>
            LET c == commits[i]
            IN  /\ DailyRecord(visits', c.key, c.domain).totalTime
                     = DailyRecord(visits, c.key, c.domain).totalTime + c.duration
                /\ \A k \in DOMAIN visits' \ {c.key} : Has(visits, k) /\ visits'[k] = visits[k]
    ]_vars

\* C39 witness: a session that began before midnight was stopped after it: the
\* record of the second day holds more time for the domain than has passed of
\* that day, and the first day has no record.
C39_Witness ==
  /\ Has(visits, 1) /\ Has(visits[1], DomainA)
  /\ visits[1][DomainA].totalTime > now - DayMs
  /\ ~Has(visits, 0)

====
